---- MODULE Spec2Model ----
(***************************************************************************)
(* Model of the vacancy listing / statistics program (src/program.py).     *)
(*                                                                         *)
(* Representation of Python values:                                        *)
(*  - a str is a sequence of atoms (an atom is a character or an           *)
(*    indivisible run of characters); separators that the code splits on   *)
(*    ("-", "T", "\n", ", ") are atoms of their own, so str.split is       *)
(*    modelled by Split below and substring search by Contains;            *)
(*  - the text of a number ("100", "100.5") is a record                    *)
(*    [whole, dot, frac]: the digits before the point, whether a point is  *)
(*    present, and the digit after it;                                     *)
(*  - a dict is a sequence of <<key, value>> pairs in insertion order;     *)
(*  - a float holding money is an exact rational, kept as an integer       *)
(*    numerator over a fixed denominator (RateScale for one converted      *)
(*    bound, 2 * RateScale for a midpoint);                                *)
(*  - a call that may raise returns [exc |-> name, val |-> value] with     *)
(*    exc = "None" when it returns normally.                               *)
(* The localized (Cyrillic) field names are transliterated to ASCII.       *)
(***************************************************************************)
EXTENDS Integers, Sequences, FiniteSets, TLC

VARIABLES
    pc,            \* position in start_data_to_table / start_data_to_stats
    input_connect, \* InputConnect: need_filter, key_filter, value_filter, need_sort, key_sort, sort_reverse
    loaded,        \* the list returned by DataSet.csv_parse / csv_parse_for_table
    vacancies,     \* the local variable `vacancies` of the running flow
    sort_input,    \* the list handed to sort_vacancies (its contents before the in-place sort)
    err,           \* the exception that ended the flow, "None" otherwise
    prof_name_in,  \* the profession keyword typed by the user
    data_stats,    \* DataStats: prof_name and the six dicts
    report_data,   \* Report.data, the dict returned by DataStats.get_all
    pure_in,       \* argument of the pure function under check
    pure_out       \* its result

vars == <<pc, input_connect, loaded, vacancies, sort_input, err, prof_name_in,
          data_stats, report_data, pure_in, pure_out>>

-----------------------------------------------------------------------------
(* Bounds of the model *)

MaxLen == 3          \* longest record list enumerated exhaustively
MaxSlack == 1        \* largest distance of a two-area input's size from 100 or 200 postings
MaxAreas == 12       \* largest number of areas (dict entries) of a patterned input
MaxMul == 3          \* largest multiplier of a value pattern
MaxMod == 13         \* largest modulus of a value pattern
MaxWhole == 12       \* largest whole part of an amount handed to the conversion

-----------------------------------------------------------------------------
(* Python built-ins *)

Ok(v) == [exc |-> "None", val |-> v]
\* a call whose exception is not caught: when the call r raised, the exception
\* leaves the caller with the caller's state ds; otherwise the caller goes on
\* with the value returned
Try(r, ds, rest(_)) == IF r.exc # "None" THEN [exc |-> r.exc, val |-> ds] ELSE rest(r.val)

\* a method call that raised leaves the object as the method left it
Then(r, rest(_)) == IF r.exc # "None" THEN r ELSE rest(r.val)

\* a local variable: v is evaluated once and the statements `body` run with
\* its value
With(v, body(_)) == CHOOSE y \in {body(x) : x \in {v}} : TRUE

Raise(e) == [exc |-> e, val |-> 0]

Range(s) == {s[i] : i \in DOMAIN s}

\* sum(s), added up by halves to keep the evaluation shallow
RECURSIVE SumSeq(_)
SumSeq(s) ==
    IF s = <<>> THEN 0
    ELSE IF Len(s) = 1 THEN s[1]
    ELSE SumSeq(SubSeq(s, 1, Len(s) \div 2)) + SumSeq(SubSeq(s, Len(s) \div 2 + 1, Len(s)))

Reverse(s) == [i \in 1..Len(s) |-> s[Len(s) + 1 - i]]

\* equality in place of containment
Contains_whole(sub, s) == sub = s

\* `sub in s` for two str
Contains(sub, s) ==
    \E i \in 0..(Len(s) - Len(sub)) : SubSeq(s, i + 1, i + Len(sub)) = sub

\* s.split(sep) for a one-atom separator: the pieces between occurrences of sep
RECURSIVE SplitFrom(_, _, _, _)
SplitFrom(s, sep, i, piece) ==
    IF i > Len(s) THEN <<piece>>
    ELSE IF s[i] = sep THEN <<piece>> \o SplitFrom(s, sep, i + 1, <<>>)
    ELSE SplitFrom(s, sep, i + 1, Append(piece, s[i]))

Split(s, sep) == SplitFrom(s, sep, 1, <<>>)

\* sep.join(pieces)
RECURSIVE Join(_, _)
Join(pieces, sep) ==
    IF pieces = <<>> THEN <<>>
    ELSE IF Len(pieces) = 1 THEN pieces[1]
    ELSE pieces[1] \o <<sep>> \o Join(Tail(pieces), sep)

\* The text of a number
Num(w) == [whole |-> w, dot |-> FALSE, frac |-> 0]
NumF(w, f) == [whole |-> w, dot |-> TRUE, frac |-> f]

\* int(text): a text with a decimal point is not an integer literal
int(text) == IF text.dot THEN Raise("ValueError") ELSE Ok(text.whole)

\* text.split('.')[0]
split_dot_0(text) == Num(text.whole)

\* dict helpers (insertion-ordered)
Keys(dic) == [i \in 1..Len(dic) |-> dic[i][1]]
HasKey(dic, k) == \E i \in 1..Len(dic) : dic[i][1] = k
Get(dic, k) == dic[CHOOSE i \in 1..Len(dic) : dic[i][1] = k][2]
\* dic[k] = v : an existing key keeps its position, a new key goes last
Put(dic, k, v) ==
    IF HasKey(dic, k)
    THEN [i \in 1..Len(dic) |-> IF dic[i][1] = k THEN <<k, v>> ELSE dic[i]]
    ELSE Append(dic, <<k, v>>)

-----------------------------------------------------------------------------
(* Record Model: class-level tables *)

RateScale == 10000   \* the rates below are currency_to_rub * RateScale

currency_to_rub ==
    [c \in {"AZN", "BYR", "EUR", "GEL", "KGS", "KZT", "RUR", "UAH", "USD", "UZS"} |->
        CASE c = "AZN" -> 356800 [] c = "BYR" -> 239100 [] c = "EUR" -> 599000
          [] c = "GEL" -> 217400 [] c = "KGS" -> 7600   [] c = "KZT" -> 1300
          [] c = "RUR" -> 10000  [] c = "UAH" -> 16400  [] c = "USD" -> 606600
          [] c = "UZS" -> 55]

currency_to_ru ==
    [c \in {"azn", "byr", "eur", "gel", "kgs", "kzt", "rur", "uah", "usd", "uzs"} |->
        CASE c = "azn" -> <<"Manaty">>  [] c = "byr" -> <<"Belorusskie rubli">>
          [] c = "eur" -> <<"Evro">>    [] c = "gel" -> <<"Gruzinskij lari">>
          [] c = "kgs" -> <<"Kirgizskij som">> [] c = "kzt" -> <<"Tenge">>
          [] c = "rur" -> <<"Rubli">>   [] c = "uah" -> <<"Grivny">>
          [] c = "usd" -> <<"Dollary">> [] c = "uzs" -> <<"Uzbekskij sum">>]

value_to_rus ==
    [k \in {"premium", "experience_id"} |->
        IF k = "premium"
        THEN [c \in {"false", "true"} |-> IF c = "false" THEN <<"Net">> ELSE <<"Da">>]
        ELSE [c \in {"noexperience", "between1and3", "between3and6", "morethan6"} |->
                CASE c = "noexperience" -> <<"Net opyta">>
                  [] c = "between1and3" -> <<"Ot 1 goda do 3 let">>
                  [] c = "between3and6" -> <<"Ot 3 do 6 let">>
                  [] c = "morethan6"    -> <<"Bolee 6 let">>]]

\* a mapping that resolves every name: an unlisted name is taken for the record name
naming_to_en_lenient ==
    [k \in {"Nazvanie", "Opisanie", "Navyki", "Opyt raboty", "Premium-vakansiya",
            "Kompaniya", "Oklad", "Identifikator valyuty oklada", "Nazvanie regiona",
            "Data publikacii vakansii", "Zarplata", "name", ""} |->
        CASE k = "Opisanie" -> "descriprion"
          [] k = "Navyki" -> "key_skills"
          [] k = "Opyt raboty" -> "experience_id"
          [] k = "Premium-vakansiya" -> "premium"
          [] k = "Kompaniya" -> "employer_name"
          [] k = "Oklad" -> "salary"
          [] k = "Identifikator valyuty oklada" -> "salary_currency"
          [] k = "Nazvanie regiona" -> "area_name"
          [] k = "Data publikacii vakansii" -> "published_at"
          [] OTHER -> "name"]

naming_to_en ==
    [k \in {"Nazvanie", "Opisanie", "Navyki", "Opyt raboty", "Premium-vakansiya",
            "Kompaniya", "Oklad", "Identifikator valyuty oklada", "Nazvanie regiona",
            "Data publikacii vakansii"} |->
        CASE k = "Nazvanie" -> "name"
          [] k = "Opisanie" -> "descriprion"
          [] k = "Navyki" -> "key_skills"
          [] k = "Opyt raboty" -> "experience_id"
          [] k = "Premium-vakansiya" -> "premium"
          [] k = "Kompaniya" -> "employer_name"
          [] k = "Oklad" -> "salary"
          [] k = "Identifikator valyuty oklada" -> "salary_currency"
          [] k = "Nazvanie regiona" -> "area_name"
          [] k = "Data publikacii vakansii" -> "published_at"]

\* the code looked up as it is written in the file
lower_skipped(s) == s

\* str.lower() of a one-atom code
lower(s) ==
    CASE s = "RUR" -> "rur" [] s = "USD" -> "usd" [] s = "EUR" -> "eur" [] s = "KZT" -> "kzt"
      [] s = "UZS" -> "uzs" [] s = "AZN" -> "azn" [] s = "BYR" -> "byr" [] s = "GEL" -> "gel"
      [] s = "KGS" -> "kgs" [] s = "UAH" -> "uah"
      [] s = "False" -> "false" [] s = "True" -> "true"
      [] s = "noExperience" -> "noexperience"
      [] s = "moreThan6" -> "morethan6"
      [] OTHER -> s

\* code point order of the atoms that occur in sorted string attributes
Ord(a) ==
    CASE a = "a" -> 97 [] a = "d" -> 100 [] a = "e" -> 101 [] a = "o" -> 111
      [] a = "p" -> 112 [] a = "q" -> 113 [] a = "s" -> 115 [] a = "v" -> 118
      [] a = " " -> 32 [] OTHER -> 0

\* a < b for two str (lexicographic)
RECURSIVE LexLess(_, _)
LexLess(a, b) ==
    IF b = <<>> THEN FALSE
    ELSE IF a = <<>> THEN TRUE
    ELSE IF Ord(a[1]) # Ord(b[1]) THEN Ord(a[1]) < Ord(b[1])
    ELSE LexLess(Tail(a), Tail(b))

-----------------------------------------------------------------------------
(* Record Model: Salary and Vacancy *)

\* Salary.__init__
Salary(dic, is_for_table) ==
    IF is_for_table
    THEN [salary_from |-> dic.salary_from, salary_to |-> dic.salary_to,
          salary_currency |-> dic.salary_currency, salary_gross |-> dic.salary_gross]
    ELSE [salary_from |-> dic.salary_from, salary_to |-> dic.salary_to,
          salary_currency |-> dic.salary_currency]

\* Vacancy.__init__
Vacancy(data, is_for_table) ==
    IF is_for_table
    THEN [name |-> data.name, salary |-> Salary(data, TRUE), area_name |-> data.area_name,
          published_at |-> data.published_at, description |-> data.description,
          key_skills |-> Split(data.key_skills, "\n"), experience_id |-> data.experience_id,
          premium |-> data.premium, employer_name |-> data.employer_name]
    ELSE [name |-> data.name, salary |-> Salary(data, FALSE), area_name |-> data.area_name,
          published_at |-> data.published_at]

\* Salary.is_suitable; the chained comparison a <= b <= c evaluates c only when a <= b
Salary_is_suitable(self, key, value) ==
    IF key = "salary"
    THEN LET a == int(self.salary_from)
             b == int(value)
             c == int(self.salary_to)
         IN  IF a.exc # "None" THEN Raise(a.exc)
             ELSE IF b.exc # "None" THEN Raise(b.exc)
             ELSE IF ~(a.val <= b.val) THEN Ok(FALSE)
             ELSE IF c.exc # "None" THEN Raise(c.exc)
             ELSE Ok(b.val <= c.val)
    ELSE LET code == lower(self.salary_currency[1])
         IN  IF code \notin DOMAIN currency_to_ru THEN Raise("KeyError")
             ELSE Ok(currency_to_ru[code] = value)

\* the bound rounded to the nearest whole amount instead of cut at the point
to_rub_rounded(bound, rate) ==
    (bound.whole + (IF bound.dot /\ bound.frac >= 5 THEN 1 ELSE 0)) * rate

\* one bound converted to roubles: int(bound.split('.')[0]) * rate, in 1/RateScale roubles
to_rub(bound, rate) == int(split_dot_0(bound)).val * rate

\* a salary in an unlisted currency counted as 0 instead of raising
get_salary_in_rub_unknown_zero(self) ==
    IF self.salary_currency[1] \notin DOMAIN currency_to_rub THEN Ok(0)
    ELSE Ok(to_rub(self.salary_from, currency_to_rub[self.salary_currency[1]])
            + to_rub(self.salary_to, currency_to_rub[self.salary_currency[1]]))

\* Salary.get_salary_in_rub; the value is a numerator over 2 * RateScale
get_salary_in_rub(self) ==
    IF self.salary_currency[1] \notin DOMAIN currency_to_rub THEN Raise("KeyError")
    ELSE LET rate == currency_to_rub[self.salary_currency[1]]
         IN  Ok(to_rub(self.salary_from, rate) + to_rub(self.salary_to, rate))

\* the date parts joined without time.reverse(): YYYY.MM.DD
get_date_unreversed(s) == Join(Split(Split(s, "T")[1], "-"), ".")

\* Vacancy.get_date
get_date(s) == Join(Reverse(Split(Split(s, "T")[1], "-")), ".")

\* Vacancy.is_suitable
is_suitable(self, key0, value, year_only) ==
    IF key0 \notin DOMAIN naming_to_en THEN Raise("KeyError")
    ELSE LET key == naming_to_en[key0]
         IN  IF key = "name" THEN Ok(Contains(value, self.name))
             ELSE IF key = "published_at"
             THEN IF year_only THEN Ok(value = Split(self.published_at, "-")[1])
                  ELSE Ok(value = get_date(self.published_at))
             ELSE IF key = "salary" \/ key = "salary_currency"
             THEN Salary_is_suitable(self.salary, key, value)
             ELSE IF key \notin DOMAIN self THEN Raise("AttributeError")
             ELSE IF key \in DOMAIN value_to_rus
             THEN LET code == lower(self[key][1])
                  IN  IF code \notin DOMAIN value_to_rus[key] THEN Raise("KeyError")
                      ELSE Ok(value_to_rus[key][code] = value)
             \* key_skills is a list: a list never equals the str value
             ELSE IF key = "key_skills" THEN Ok(FALSE)
             ELSE Ok(self[key] = value)

experience_rank ==
    [c \in {"noexperience", "between1and3", "between3and6", "morethan6"} |->
        CASE c = "noexperience" -> 0 [] c = "between1and3" -> 1
          [] c = "between3and6" -> 2 [] c = "morethan6" -> 3]

\* the salary key taken from the raw lower bound of the record
get_value_for_sort_raw_from(self, key0) ==
    IF key0 \notin DOMAIN naming_to_en THEN Raise("KeyError")
    ELSE IF naming_to_en[key0] = "salary" THEN Ok(self.salary.salary_from.whole)
    ELSE IF naming_to_en[key0] = "key_skills" THEN Ok(Len(self.key_skills))
    ELSE IF naming_to_en[key0] = "experience_id"
    THEN Ok(experience_rank[lower(self.experience_id[1])])
    ELSE IF naming_to_en[key0] \notin DOMAIN self THEN Raise("AttributeError")
    ELSE Ok(self[naming_to_en[key0]])

\* Vacancy.get_value_for_sort
get_value_for_sort(self, key0) ==
    IF key0 \notin DOMAIN naming_to_en THEN Raise("KeyError")
    ELSE LET key == naming_to_en[key0]
         IN  IF key = "salary" THEN get_salary_in_rub(self.salary)
             ELSE IF key = "key_skills"
             THEN IF key \notin DOMAIN self THEN Raise("AttributeError")
                  ELSE Ok(Len(self.key_skills))
             ELSE IF key = "experience_id"
             THEN IF key \notin DOMAIN self THEN Raise("AttributeError")
                  ELSE LET code == lower(self.experience_id[1])
                       IN  IF code \notin DOMAIN experience_rank THEN Raise("KeyError")
                           ELSE Ok(experience_rank[code])
             ELSE IF key \notin DOMAIN self THEN Raise("AttributeError")
             ELSE Ok(self[key])

\* the type of the sort key get_value_for_sort returns for a field
KeyKind(key0) == IF key0 \in {"Oklad", "Navyki", "Opyt raboty"} THEN "num" ELSE "str"

\* the order Python uses on two keys of one type: numbers, or str
KeyLess(kind, a, b) == IF kind = "num" THEN a < b ELSE LexLess(a, b)

-----------------------------------------------------------------------------
(* Filter/Sort Pipeline *)

\* the index of the first call that raised, 0 when none did
FirstRaise(res) ==
    IF \E i \in 1..Len(res) : res[i].exc # "None"
    THEN CHOOSE i \in 1..Len(res) :
            /\ res[i].exc # "None"
            /\ \A j \in 1..(i - 1) : res[j].exc = "None"
    ELSE 0

\* the kept items collected back to front
Keep_reversed(items, flags) ==
    Reverse(SelectSeq(items, LAMBDA v : \E i \in 1..Len(items) : items[i] = v /\ flags[i].val))

\* list(filter(...)): the items whose flag is set, in order (collected by halves)
RECURSIVE Keep(_, _)
Keep(items, flags) ==
    IF items = <<>> THEN <<>>
    ELSE IF Len(items) = 1 THEN (IF flags[1].val THEN items ELSE <<>>)
    ELSE LET h == Len(items) \div 2
         IN  Keep(SubSeq(items, 1, h), SubSeq(flags, 1, h))
                \o Keep(SubSeq(items, h + 1, Len(items)), SubSeq(flags, h + 1, Len(items)))

\* filter_vacancies / DataStats.filter_vacancies: the first exception propagates
filter_vacancies(vs, key, value, year_only) ==
    With([i \in 1..Len(vs) |-> is_suitable(vs[i], key, value, year_only)], LAMBDA res :
        IF FirstRaise(res) # 0 THEN Raise(res[FirstRaise(res)].exc) ELSE Ok(Keep(vs, res)))

\* insertion of one <<key, item>> pair behind every pair whose key is not greater
InsertAt(sorted, p, pos) ==
    SubSeq(sorted, 1, pos - 1) \o <<p>> \o SubSeq(sorted, pos, Len(sorted))

InsertSorted(sorted, p, kind) ==
    With({j \in 1..Len(sorted) : KeyLess(kind, p[1], sorted[j][1])}, LAMBDA after :
        IF after = {} THEN InsertAt(sorted, p, Len(sorted) + 1)
        ELSE InsertAt(sorted, p, CHOOSE j \in after : \A k \in after : j <= k))

\* the stable ascending sort of list.sort
RECURSIVE StableSort(_, _)
StableSort(pairs, kind) ==
    IF pairs = <<>> THEN <<>>
    ELSE With(StableSort(SubSeq(pairs, 1, Len(pairs) - 1), kind), LAMBDA sorted :
            InsertSorted(sorted, pairs[Len(pairs)], kind))

\* a descending sort done as "sort ascending, then reverse": equal keys swap
list_sort_reversed_after(pairs, kind, reverse) ==
    IF reverse THEN Reverse(StableSort(pairs, kind))
    ELSE StableSort(pairs, kind)

\* list.sort(key=..., reverse=...): reverse=True reverses the list, sorts it
\* ascending and reverses the result, which keeps equal keys in input order
list_sort(pairs, kind, reverse) ==
    IF reverse THEN Reverse(StableSort(Reverse(pairs), kind))
    ELSE StableSort(pairs, kind)

\* sort_vacancies: the keys are computed first, the first exception propagates
sort_vacancies(vs, key0, reverse) ==
    With([i \in 1..Len(vs) |-> get_value_for_sort(vs[i], key0)], LAMBDA res :
        IF FirstRaise(res) # 0 THEN Raise(res[FirstRaise(res)].exc)
        ELSE With(list_sort([i \in 1..Len(vs) |-> <<res[i].val, vs[i]>>], KeyKind(key0), reverse),
                  LAMBDA sorted : Ok([i \in 1..Len(vs) |-> sorted[i][2]])))

-----------------------------------------------------------------------------
(* Statistics Aggregator: DataStats *)

FirstYear == 2007    \* range(2007, 2023)
LastYear == 2022
TopN == 10           \* get_sorted_dic keeps the entries with index < 10
ShareScale == 10000  \* a share is kept in 1/10000, the precision of format(x, '.4f')

\* DataStats.__init__
DataStats ==
    [prof_name |-> <<>>, salary_years |-> <<>>, count_years |-> <<>>, salary_prof |-> <<>>,
     count_prof |-> <<>>, areas_with_salrs |-> <<>>, areas_with_shares |-> <<>>]

\* round() in place of int(): the mean rounded half up
get_avg_salary_rounded(vs) ==
    IF Len(vs) = 0 THEN Ok(0)
    ELSE LET res == [i \in 1..Len(vs) |-> get_salary_in_rub(vs[i].salary)]
             bad == FirstRaise(res)
         IN  IF bad # 0 THEN Raise(res[bad].exc)
             ELSE Ok((SumSeq([i \in 1..Len(vs) |-> res[i].val]) + RateScale * Len(vs))
                        \div (2 * RateScale * Len(vs)))

\* DataStats.get_avg_salary: int() truncates the mean; the mean of midpoints
\* with numerators n_i over 2 * RateScale is sum(n_i) / (2 * RateScale * len)
get_avg_salary(vs) ==
    IF Len(vs) = 0 THEN Ok(0)
    ELSE With([i \in 1..Len(vs) |-> get_salary_in_rub(vs[i].salary)], LAMBDA res :
            IF FirstRaise(res) # 0 THEN Raise(res[FirstRaise(res)].exc)
            ELSE Ok(SumSeq([i \in 1..Len(vs) |-> res[i].val]) \div (2 * RateScale * Len(vs))))

\* DataStats.set_value_dicts on the dicts ds[dic_salary] and ds[dic_count];
\* when get_avg_salary raises neither dict has been written
set_value_dicts(ds, dic_salary, dic_count, key, vs) ==
    Try(get_avg_salary(vs), ds, LAMBDA avg :
        Ok([ds EXCEPT ![dic_salary] = Put(@, key, avg),
                      ![dic_count] = Put(@, key, Len(vs))]))

\* the year loop without the `len(fields) != 0` test: empty years are recorded
year_iteration_unguarded(ds, vs, i) ==
    LET fields == filter_vacancies(vs, "Data publikacii vakansii", <<ToString(i)>>, TRUE)
    IN  IF fields.exc # "None" THEN [exc |-> fields.exc, val |-> ds]
        ELSE LET r1 == set_value_dicts(ds, "salary_years", "count_years", i, fields.val)
                 prof == filter_vacancies(fields.val, "Nazvanie", ds.prof_name, FALSE)
             IN  IF r1.exc # "None" THEN r1
                 ELSE IF prof.exc # "None" THEN [exc |-> prof.exc, val |-> r1.val]
                 ELSE set_value_dicts(r1.val, "salary_prof", "count_prof", i, prof.val)

\* the profession statistics written into the full-population dicts
year_iteration_prof_overwrites(ds, vs, i) ==
    LET fields == filter_vacancies(vs, "Data publikacii vakansii", <<ToString(i)>>, TRUE)
    IN  IF fields.exc # "None" THEN [exc |-> fields.exc, val |-> ds]
        ELSE IF Len(fields.val) = 0 THEN Ok(ds)
        ELSE LET r1 == set_value_dicts(ds, "salary_years", "count_years", i, fields.val)
                 prof == filter_vacancies(fields.val, "Nazvanie", ds.prof_name, FALSE)
                 r2 == set_value_dicts(r1.val, "salary_years", "count_years", i, prof.val)
             IN  IF r1.exc # "None" THEN r1
                 ELSE IF prof.exc # "None" THEN [exc |-> prof.exc, val |-> r1.val]
                 ELSE IF r2.exc # "None" THEN r2
                 ELSE set_value_dicts(r2.val, "salary_prof", "count_prof", i, prof.val)

\* the profession entry written only for a year in which the profession occurs
year_iteration_prof_guarded(ds, vs, i) ==
    Try(filter_vacancies(vs, "Data publikacii vakansii", <<ToString(i)>>, TRUE), ds, LAMBDA fields :
        IF Len(fields) = 0 THEN Ok(ds)
        ELSE Then(set_value_dicts(ds, "salary_years", "count_years", i, fields), LAMBDA ds1 :
                Try(filter_vacancies(fields, "Nazvanie", ds.prof_name, FALSE), ds1, LAMBDA prof :
                    IF Len(prof) = 0 THEN Ok(ds1)
                    ELSE set_value_dicts(ds1, "salary_prof", "count_prof", i, prof))))

\* the profession filter applied to the whole input instead of the year's postings
year_iteration_prof_all_years(ds, vs, i) ==
    Try(filter_vacancies(vs, "Data publikacii vakansii", <<ToString(i)>>, TRUE), ds, LAMBDA fields :
        IF Len(fields) = 0 THEN Ok(ds)
        ELSE Then(set_value_dicts(ds, "salary_years", "count_years", i, fields), LAMBDA ds1 :
                Try(filter_vacancies(vs, "Nazvanie", ds.prof_name, FALSE), ds1, LAMBDA prof :
                    set_value_dicts(ds1, "salary_prof", "count_prof", i, prof))))

\* one iteration of the year loop of calculate_stats
year_iteration(ds, vs, i) ==
    Try(filter_vacancies(vs, "Data publikacii vakansii", <<ToString(i)>>, TRUE), ds, LAMBDA fields :
        IF Len(fields) = 0 THEN Ok(ds)
        ELSE Then(set_value_dicts(ds, "salary_years", "count_years", i, fields), LAMBDA ds1 :
                Try(filter_vacancies(fields, "Nazvanie", ds.prof_name, FALSE), ds1, LAMBDA prof :
                    set_value_dicts(ds1, "salary_prof", "count_prof", i, prof))))

\* for i in range(2007, 2023): the iterations from year i on
RECURSIVE year_loop(_, _, _)
year_loop(ds, vs, i) ==
    IF i > LastYear THEN Ok(ds)
    ELSE Then(year_iteration(ds, vs, i), LAMBDA ds1 : year_loop(ds1, vs, i + 1))

\* the counting loop continued with the counts of a later stretch of the list:
\* each area of `later` is added to its entry, a new area goes last
RECURSIVE add_counts(_, _)
add_counts(dic_areas, later) ==
    IF later = <<>> THEN dic_areas
    ELSE LET a == later[1][1]
             n == IF HasKey(dic_areas, a) THEN Get(dic_areas, a) ELSE 0
         IN  add_counts(Put(dic_areas, a, n + later[1][2]), Tail(later))

\* dic_areas: the number of postings of each area, in order of first
\* occurrence (the loop over the list is evaluated by halves)
RECURSIVE count_areas(_)
count_areas(vs) ==
    IF vs = <<>> THEN <<>>
    ELSE IF Len(vs) = 1 THEN << <<vs[1].area_name, 1>> >>
    ELSE add_counts(count_areas(SubSeq(vs, 1, Len(vs) \div 2)),
                    count_areas(SubSeq(vs, Len(vs) \div 2 + 1, Len(vs))))

\* an open boundary: > 0.01 in place of >= 0.01
meets_threshold_strict(count, total) == count * 100 > total

\* dic_areas[area] / len(vacancies) >= 0.01.  The double nearest to 0.01 lies
\* above 0.01 by less than 3e-19, and a quotient count / total below 1/100 is
\* at least 1 / (100 * total) below it, so for every total below 10^15 the
\* float comparison decides exactly as count * 100 >= total.
meets_threshold(count, total) == count * 100 >= total

\* 2^e mod t
RECURSIVE Pow2Mod(_, _)
Pow2Mod(e, t) == IF e = 0 THEN 1 % t ELSE (2 * Pow2Mod(e - 1, t)) % t

\* the least j with count * 2^j >= total (count >= 1)
RECURSIVE ShiftToOne(_, _, _)
ShiftToOne(count, total, j) ==
    IF count >= total THEN j ELSE ShiftToOne(2 * count, total, j + 1)

\* the remainder of count * 2^e by total, where count * 2^e / total is the
\* quotient scaled to a 53-bit significand; 0 when the quotient is an exact double
double_rem(count, total) ==
    ((count % total) * Pow2Mod(52 + ShiftToOne(count, total, 0), total)) % total

\* the share as a percentage: count / total * 100 formatted the same way
format_4f_percent(count, total) == (count * 100 * ShareScale) \div total

\* float(format(count / total, '.4f')), in 1/ShareScale: the double quotient
\* rounded to 4 decimals.  A decimal tie is decided by the double: an exact
\* double is rounded half to even, otherwise the double lies above the tie
\* when the division rounded up (remainder above total / 2) and below it when
\* the division rounded down.
format_4f(count, total) ==
    LET q == (count * ShareScale) \div total
        r == (count * ShareScale) % total
    IN  IF 2 * r < total THEN q
        ELSE IF 2 * r > total THEN q + 1
        ELSE IF double_rem(count, total) = 0 THEN (IF q % 2 = 0 THEN q ELSE q + 1)
        ELSE IF 2 * double_rem(count, total) > total THEN q + 1
        ELSE q

\* the cut taken before the sort: the first 10 inserted pairs, sorted
get_sorted_dic_cut_first(dic) ==
    LET n == IF Len(dic) < TopN THEN Len(dic) ELSE TopN
        pairs == [i \in 1..n |-> <<dic[i][2], dic[i]>>]
        sorted_tuples == list_sort(pairs, "num", TRUE)
    IN  [i \in 1..n |-> sorted_tuples[i][2]]

\* the sort without reverse=True: smallest values first
get_sorted_dic_ascending(dic) ==
    LET pairs == [i \in 1..Len(dic) |-> <<dic[i][2], dic[i]>>]
        sorted_tuples == list_sort(pairs, "num", FALSE)
        n == IF Len(dic) < TopN THEN Len(dic) ELSE TopN
    IN  [i \in 1..n |-> sorted_tuples[i][2]]

\* DataStats.get_sorted_dic with handler = lambda item: item[1]:
\* sorted(dic.items(), key=handler, reverse=True) cut to the first 10 pairs
get_sorted_dic(dic) ==
    LET pairs == [i \in 1..Len(dic) |-> <<dic[i][2], dic[i]>>]
        sorted_tuples == list_sort(pairs, "num", TRUE)
        n == IF Len(dic) < TopN THEN Len(dic) ELSE TopN
    IN  [i \in 1..n |-> sorted_tuples[i][2]]

\* the loop with the share comprehension run ahead of set_value_dicts: the
\* area written last keeps its raw posting count
RECURSIVE area_loop_count_last(_, _, _, _, _)
area_loop_count_last(ds, vs, dic_areas, areas, k) ==
    IF k > Len(areas) THEN Ok(ds)
    ELSE Try(filter_vacancies(vs, "Nazvanie regiona", areas[k], FALSE), ds, LAMBDA fields :
            Then(set_value_dicts(
                    [ds EXCEPT !.areas_with_shares =
                        [i \in 1..Len(@) |->
                            <<@[i][1], format_4f(Get(dic_areas, @[i][1]), Len(vs))>>]],
                    "areas_with_salrs", "areas_with_shares", areas[k], fields),
                LAMBDA ds1 :
                    area_loop_count_last(
                        [ds1 EXCEPT !.areas_with_shares = Put(@, areas[k], ShareScale * Len(fields))],
                        vs, dic_areas, areas, k + 1)))

\* the body of `for area in areas` for the areas from index k on; the dict
\* comprehension reads dic_areas[area] for every key of areas_with_shares and
\* raises KeyError for a key left by an earlier run on another input
RECURSIVE area_loop(_, _, _, _, _)
area_loop(ds, vs, dic_areas, areas, k) ==
    IF k > Len(areas) THEN Ok(ds)
    ELSE Try(filter_vacancies(vs, "Nazvanie regiona", areas[k], FALSE), ds, LAMBDA fields :
            Then(set_value_dicts(ds, "areas_with_salrs", "areas_with_shares", areas[k], fields),
                LAMBDA ds1 :
                    IF \E i \in 1..Len(ds1.areas_with_shares) :
                            ~HasKey(dic_areas, ds1.areas_with_shares[i][1])
                    THEN [exc |-> "KeyError", val |-> ds1]
                    ELSE
                    area_loop(
                        [ds1 EXCEPT !.areas_with_shares =
                            [i \in 1..Len(@) |->
                                <<@[i][1], format_4f(Get(dic_areas, @[i][1]), Len(vs))>>]],
                        vs, dic_areas, areas, k + 1)))

\* the geography pass with the top-10 cut applied to the salary map only
calculate_stats_areas_shares_uncut(ds, vs) ==
    With(count_areas(vs), LAMBDA dic_areas :
        With(SelectSeq(Keys(dic_areas), LAMBDA a : meets_threshold(Get(dic_areas, a), Len(vs))),
             LAMBDA areas :
                Then(area_loop(ds, vs, dic_areas, areas, 1), LAMBDA ds1 :
                    Ok([ds1 EXCEPT !.areas_with_salrs = get_sorted_dic(@)]))))

\* DataStats.calculate_stats_areas
calculate_stats_areas(ds, vs) ==
    With(count_areas(vs), LAMBDA dic_areas :
        With(SelectSeq(Keys(dic_areas), LAMBDA a : meets_threshold(Get(dic_areas, a), Len(vs))),
             LAMBDA areas :
                Then(area_loop(ds, vs, dic_areas, areas, 1), LAMBDA ds1 :
                    Ok([ds1 EXCEPT !.areas_with_salrs = get_sorted_dic(@),
                                   !.areas_with_shares = get_sorted_dic(@)]))))

\* DataStats.calculate_stats
calculate_stats_result(ds, vs, prof_name) ==
    Then(year_loop([ds EXCEPT !.prof_name = prof_name], vs, FirstYear),
         LAMBDA ds1 : calculate_stats_areas(ds1, vs))

\* what the dict returned by an earlier get_all shows after calculate_stats has
\* run again on the same object.  get_all stores the object's own dicts, so
\* the result sees every write made in place: the year loop writes into the
\* four year dicts, the geography pass writes into the areas_with_salrs object
\* until it is rebound after the loop, and into the areas_with_shares object
\* once (the count of the first area) before the comprehension rebinds it.
\* prof_name is a str and `areas` a list of the result's own.
result_after_rerun(res, ds, vs, prof_name) ==
    With(year_loop([ds EXCEPT !.prof_name = prof_name], vs, FirstYear), LAMBDA yl :
    With(count_areas(vs), LAMBDA dic_areas :
    With(SelectSeq(Keys(dic_areas), LAMBDA a : meets_threshold(Get(dic_areas, a), Len(vs))),
         LAMBDA areas :
    With(IF yl.exc # "None" THEN yl ELSE area_loop(yl.val, vs, dic_areas, areas, 1), LAMBDA al :
        [res EXCEPT
            !.salary_years = al.val.salary_years,
            !.count_years = al.val.count_years,
            !.salary_prof = al.val.salary_prof,
            !.count_prof = al.val.count_prof,
            !.areas_with_salrs = al.val.areas_with_salrs,
            !.areas_with_shares =
                IF yl.exc = "None" /\ Len(areas) > 0
                   /\ get_avg_salary(filter_vacancies(vs, "Nazvanie regiona", areas[1], FALSE).val).exc
                        = "None"
                THEN Put(@, areas[1],
                         ShareScale * Len(filter_vacancies(vs, "Nazvanie regiona", areas[1], FALSE).val))
                ELSE @]))))

\* DataStats.get_all
get_all_result(ds) ==
    [salary_years |-> ds.salary_years, count_years |-> ds.count_years,
     salary_prof |-> ds.salary_prof, count_prof |-> ds.count_prof,
     areas_with_salrs |-> ds.areas_with_salrs, areas_with_shares |-> ds.areas_with_shares,
     prof_name |-> ds.prof_name, areas |-> Keys(ds.areas_with_salrs)]

-----------------------------------------------------------------------------
(* Report: the renderers that index the statistics result *)

\* the rows fill_data_years appends when every year between the first and the
\* last key of salary_years is a key of all four year maps
year_rows(data, first, last) ==
    [k \in 1..(last - first + 1) |->
        <<first + k - 1, Get(data.salary_years, first + k - 1), Get(data.salary_prof, first + k - 1),
          Get(data.count_years, first + k - 1), Get(data.count_prof, first + k - 1)>>]

\* Report.fill_data_years: years[0] raises IndexError on an empty salary_years,
\* and data[...][i] raises KeyError for a year i that is not a key
fill_data_years(data) ==
    IF Len(data.salary_years) = 0 THEN Raise("IndexError")
    ELSE With(Keys(data.salary_years), LAMBDA years :
            IF \E i \in years[1]..years[Len(years)] :
                    \/ ~HasKey(data.salary_years, i) \/ ~HasKey(data.salary_prof, i)
                    \/ ~HasKey(data.count_years, i) \/ ~HasKey(data.count_prof, i)
            THEN Raise("KeyError")
            ELSE Ok(year_rows(data, years[1], years[Len(years)])))

\* Report.fill_data_cities: one row per entry of areas_with_salrs; the i-th
\* entry of areas_with_shares is appended to the i-th row, and values[i]
\* raises IndexError when there is no such row
fill_data_cities(data) ==
    IF Len(data.areas_with_shares) > Len(data.areas_with_salrs) THEN Raise("IndexError")
    ELSE Ok([i \in 1..Len(data.areas_with_salrs) |->
                IF i <= Len(data.areas_with_shares)
                THEN <<data.areas_with_salrs[i][1], data.areas_with_salrs[i][2], "",
                       data.areas_with_shares[i][1], data.areas_with_shares[i][2]>>
                ELSE <<data.areas_with_salrs[i][1], data.areas_with_salrs[i][2], "">>])

\* the values of a dict, in its order
Values(dic) == [i \in 1..Len(dic) |-> dic[i][2]]

\* Report.get_piechart: the labels and the wedge sizes handed to plt.pie
\* (sizes in 1/ShareScale)
get_piechart_result(data) ==
    [areas |-> <<"Drugie">> \o data.areas,
     percents |-> <<ShareScale - SumSeq(Values(data.areas_with_shares))>>
                    \o Values(data.areas_with_shares)]

-----------------------------------------------------------------------------
(* Inputs of the listing flow *)

Date(y, m, d) == <<y, "-", m, "-", d, "T", "17:32:31+0300">>

\* one sanitized csv row, as DataSet.get_correct_vacancy returns it
Row(name, skills, exp, premium, from, to, cur) ==
    [name |-> name, description |-> <<"text">>, key_skills |-> skills,
     experience_id |-> <<exp>>, premium |-> <<premium>>, employer_name |-> <<"Acme">>,
     salary_from |-> from, salary_to |-> to, salary_gross |-> <<"True">>,
     salary_currency |-> <<cur>>, area_name |-> <<"Moscow">>,
     published_at |-> Date("2020", "05", "31")]

TableRows ==
    { Row(<<"d", "e", "v">>, <<"Python", "\n", "SQL">>, "noExperience", "False", Num(100), Num(200), "RUR"),
      Row(<<"d", "e", "v">>, <<"Python", "\n", "SQL">>, "noExperience", "False", Num(150), Num(150), "RUR"),
      Row(<<"d", "e", "v">>, <<"Python", "\n", "SQL">>, "noExperience", "False", NumF(100, 5), Num(200), "RUR"),
      Row(<<"d", "e", "v">>, <<"Python", "\n", "SQL">>, "noExperience", "False", Num(2), Num(3), "USD"),
      Row(<<"d", "e", "v">>, <<"Python", "\n", "SQL">>, "noExperience", "False", Num(201), NumF(300, 0), "RUR"),
      Row(<<"q", "a">>, <<"SQL", "\n", "Git">>, "between1and3", "True", Num(100), Num(200), "RUR"),
      Row(<<"d", "e">>, <<"Python">>, "moreThan6", "False", Num(100), Num(200), "RUR") }

\* every list of 0..MaxLen rows
RowLists == UNION {[1..n -> TableRows] : n \in 0..MaxLen}

\* the answers to 'Vvedite parametr fil'tracii': empty, without ': ', or key: value
FilterParams ==
    { [kind |-> "empty"], [kind |-> "nocolon"] } \cup
    { [kind |-> "kv", key |-> kv[1], value |-> kv[2]] : kv \in
        { <<"Oklad", Num(100)>>, <<"Oklad", Num(150)>>, <<"Oklad", Num(200)>>, <<"Oklad", Num(201)>>,
          <<"Navyki", <<"Python", ", ", "SQL">> >>, <<"Navyki", <<"SQL">> >>,
          <<"Navyki", <<"Git", ", ", "Python">> >>,
          <<"Nazvanie", <<"d", "e">> >>,
          <<"Identifikator valyuty oklada", <<"Dollary">> >>,
          <<"Zarplata", <<"100">> >> } }

SortParams == {"", "Oklad", "Navyki", "Opyt raboty", "Nazvanie", "Zarplata"}
ReverseParams == {"", "Da", "Net", "yes"}

all_fields == {"Nazvanie", "Opisanie", "Navyki", "Opyt raboty", "Premium-vakansiya", "Kompaniya",
               "Oklad", "Nazvanie regiona", "Data publikacii vakansii"}

-----------------------------------------------------------------------------
(* The listing flow: start_data_to_table *)

\* InputConnect.__init__
InputConnect ==
    [need_filter |-> FALSE, key_filter |-> "", value_filter |-> <<>>,
     need_sort |-> FALSE, key_sort |-> "", sort_reverse |-> FALSE]

InitTable ==
    /\ pc = "table_start"
    /\ input_connect = InputConnect
    /\ loaded = <<>>
    /\ vacancies = <<>>
    /\ sort_input = <<>>
    /\ err = "None"
    /\ prof_name_in = <<>>
    /\ data_stats = DataStats
    /\ report_data = <<>>
    /\ pure_in = <<>>
    /\ pure_out = <<>>

\* InputConnect.pars_filter: TRUE when it calls sys.exit()
pars_filter_exits(param_filter) ==
    /\ param_filter.kind # "empty"
    /\ \/ param_filter.kind = "nocolon"
       \/ /\ param_filter.key \notin all_fields
          /\ param_filter.key # "Identifikator valyuty oklada"

\* InputConnect.pars_sort: TRUE when it calls sys.exit()
pars_sort_exits(param_sort, param_reverse) ==
    /\ param_sort # ""
    /\ \/ param_sort \notin all_fields
       \/ param_reverse \notin {"", "Da", "Net"}

\* InputConnect.check_and_parse_input (the output window and the column list
\* do not take part in filtering or sorting and are left out)
check_and_parse_input_of(filters, sorts, reverses) ==
    /\ pc = "table_start"
    /\ \E param_filter \in filters, param_sort \in sorts, param_reverse \in reverses :
        IF pars_filter_exits(param_filter) \/ pars_sort_exits(param_sort, param_reverse)
        THEN /\ pc' = "exit"
             /\ UNCHANGED input_connect
        ELSE /\ pc' = "input_parsed"
             /\ input_connect' =
                  [need_filter |-> param_filter.kind = "kv",
                   key_filter |-> IF param_filter.kind = "kv" THEN param_filter.key ELSE "",
                   value_filter |-> IF param_filter.kind = "kv" THEN param_filter.value ELSE <<>>,
                   need_sort |-> param_sort # "",
                   key_sort |-> param_sort,
                   sort_reverse |-> (param_sort # "" /\ param_reverse = "Da")]
    /\ UNCHANGED <<loaded, vacancies, sort_input, err, prof_name_in, data_stats, report_data,
                   pure_in, pure_out>>

check_and_parse_input == check_and_parse_input_of(FilterParams, SortParams, ReverseParams)

\* DataSet.csv_parse_for_table: a file without complete rows ends the program
csv_parse_for_table_of(files) ==
    /\ pc = "input_parsed"
    /\ \E rows \in files :
        LET vs == [i \in 1..Len(rows) |-> Vacancy(rows[i], TRUE)]
        IN  IF Len(vs) = 0
            THEN /\ pc' = "exit"
                 /\ UNCHANGED <<loaded, vacancies>>
            ELSE /\ pc' = "table_parsed"
                 /\ loaded' = vs
                 /\ vacancies' = vs
    /\ UNCHANGED <<input_connect, sort_input, err, prof_name_in, data_stats, report_data,
                   pure_in, pure_out>>

csv_parse_for_table == csv_parse_for_table_of(RowLists)

\* the filter step without the exit on an empty result
table_filter_continues ==
    /\ pc = "table_parsed"
    /\ IF input_connect.need_filter
       THEN \E r \in {filter_vacancies(vacancies, input_connect.key_filter,
                                        input_connect.value_filter, FALSE)} :
                IF r.exc # "None"
                THEN /\ pc' = "raised"
                     /\ err' = r.exc
                     /\ UNCHANGED vacancies
                ELSE /\ vacancies' = r.val
                     /\ pc' = "table_filtered"
                     /\ UNCHANGED err
       ELSE /\ pc' = "table_filtered"
            /\ UNCHANGED <<vacancies, err>>
    /\ UNCHANGED <<input_connect, loaded, sort_input, prof_name_in, data_stats, report_data,
                   pure_in, pure_out>>

\* start_data_to_table, lines 827-831
table_filter ==
    /\ pc = "table_parsed"
    /\ IF input_connect.need_filter
       THEN \E r \in {filter_vacancies(vacancies, input_connect.key_filter,
                                        input_connect.value_filter, FALSE)} :
                IF r.exc # "None"
                THEN /\ pc' = "raised"
                     /\ err' = r.exc
                     /\ UNCHANGED vacancies
                ELSE /\ vacancies' = r.val
                     /\ pc' = IF Len(r.val) = 0 THEN "nothing_found" ELSE "table_filtered"
                     /\ UNCHANGED err
       ELSE /\ pc' = "table_filtered"
            /\ UNCHANGED <<vacancies, err>>
    /\ UNCHANGED <<input_connect, loaded, sort_input, prof_name_in, data_stats, report_data,
                   pure_in, pure_out>>

\* start_data_to_table, lines 832-833
table_sort ==
    /\ pc = "table_filtered"
    /\ sort_input' = vacancies
    /\ IF input_connect.need_sort
       THEN \E r \in {sort_vacancies(vacancies, input_connect.key_sort,
                                      input_connect.sort_reverse)} :
                IF r.exc # "None"
                THEN /\ pc' = "raised"
                     /\ err' = r.exc
                     /\ UNCHANGED vacancies
                ELSE /\ vacancies' = r.val
                     /\ pc' = "table_sorted"
                     /\ UNCHANGED err
       ELSE /\ pc' = "table_sorted"
            /\ UNCHANGED <<vacancies, err>>
    /\ UNCHANGED <<input_connect, loaded, prof_name_in, data_stats, report_data, pure_in, pure_out>>

\* start_data_to_table, line 835
print_table ==
    /\ pc = "table_sorted"
    /\ pc' = "table_printed"
    /\ UNCHANGED <<input_connect, loaded, vacancies, sort_input, err, prof_name_in, data_stats,
                   report_data, pure_in, pure_out>>

NextTable == check_and_parse_input \/ csv_parse_for_table \/ table_filter \/ table_sort \/ print_table

SpecTable == InitTable /\ [][NextTable]_vars

\* the listing flow on files of three kinds of rows, with the answers that
\* send it down each of its paths: no filter, a filter that keeps some, none or
\* all records, a filter on a field the record lacks, an unknown field, and
\* the same for the sort
ListingRows ==
    { Row(<<"d", "e", "v">>, <<"Python", "\n", "SQL">>, "noExperience", "False", Num(100), Num(200), "RUR"),
      Row(<<"d", "e", "v">>, <<"Python", "\n", "SQL">>, "noExperience", "False", Num(201), NumF(300, 0), "RUR"),
      Row(<<"q", "a">>, <<"SQL", "\n", "Git">>, "between1and3", "True", Num(100), Num(200), "RUR") }

ListingFiles == UNION {[1..n -> ListingRows] : n \in 0..MaxLen}

ListingFilterParams ==
    { [kind |-> "empty"], [kind |-> "nocolon"] } \cup
    { [kind |-> "kv", key |-> kv[1], value |-> kv[2]] : kv \in
        { <<"Oklad", Num(150)>>, <<"Oklad", Num(201)>>, <<"Nazvanie", <<"q">> >>,
          <<"Opisanie", <<"text">> >>, <<"Zarplata", <<"100">> >> } }

ListingSortParams == {"", "Oklad", "Nazvanie", "Opisanie", "Zarplata"}

listing_input == check_and_parse_input_of(ListingFilterParams, ListingSortParams, ReverseParams)

listing_parse == csv_parse_for_table_of(ListingFiles)

NextListing == listing_input \/ listing_parse \/ table_filter \/ table_sort \/ print_table

\* start_data_to_table is one sequential run: a statement that can execute
\* does execute, so the flow never stops ahead of its last statement
SpecListing == InitTable /\ [][NextListing]_vars /\ WF_vars(NextListing)

-----------------------------------------------------------------------------
(* Properties of the listing flow *)

\* the filter step of the flow has run (and the sort step has not)
FilterDone ==
    \/ pc \in {"table_filtered", "nothing_found"}
    \/ pc = "raised" /\ sort_input = <<>>

\* the numeric value of a number text, in tenths
Tenths(text) == 10 * text.whole + (IF text.dot THEN text.frac ELSE 0)

InSalaryRange(v, target) ==
    /\ Tenths(v.salary.salary_from) <= Tenths(target)
    /\ Tenths(target) <= Tenths(v.salary.salary_to)

\* C1: filtering on 'Oklad' with an integer target keeps exactly the records
\* with salary_from <= target <= salary_to (raw bounds, both ends inclusive),
\* for every record, also one whose bounds carry a fractional part.
C1_SalaryFilterInclusive ==
    (FilterDone /\ input_connect.need_filter /\ input_connect.key_filter = "Oklad"
        /\ ~input_connect.value_filter.dot)
    => /\ pc # "raised"
       /\ vacancies = SelectSeq(loaded, LAMBDA v : InSalaryRange(v, input_connect.value_filter))

\* the pieces of a comma-separated target
Tokens(value) == Range(Split(value, ", "))

HasAllSkills(v, value) == Tokens(value) \subseteq Range(v.key_skills)

\* C7: filtering on 'Navyki' keeps exactly the records whose skill list
\* contains every token of the comma-separated target.
C7_SkillsFilterAnd ==
    (FilterDone /\ input_connect.need_filter /\ input_connect.key_filter = "Navyki")
    => /\ pc # "raised"
       /\ vacancies = SelectSeq(loaded, LAMBDA v : HasAllSkills(v, input_connect.value_filter))

SortKey(v) == get_value_for_sort(v, input_connect.key_sort).val

\* the place a stable sort gives to the i-th input record: behind every record
\* that sorts strictly before it and behind the earlier records with an equal key
StablePlace(inp, i, reverse) ==
    1 + Cardinality({j \in 1..Len(inp) :
                        IF reverse
                        THEN KeyLess(KeyKind(input_connect.key_sort), SortKey(inp[i]), SortKey(inp[j]))
                        ELSE KeyLess(KeyKind(input_connect.key_sort), SortKey(inp[j]), SortKey(inp[i]))})
      + Cardinality({j \in 1..(i - 1) : SortKey(inp[j]) = SortKey(inp[i])})

SortDone == pc \in {"table_sorted", "table_printed"} /\ input_connect.need_sort

\* C3: sort_vacancies is stable, ascending and descending: the sorted list is a
\* permutation of the input in key order, and records with identical keys keep
\* their input order.
C3_SortStable ==
    SortDone
    => /\ Len(vacancies) = Len(sort_input)
       /\ \A i \in 1..Len(sort_input) :
            vacancies[StablePlace(sort_input, i, input_connect.sort_reverse)] = sort_input[i]

\* a descending sort of a list where two different records tie and a third
\* record has another key
C3_Witness ==
    /\ SortDone
    /\ input_connect.sort_reverse
    /\ \E i, j, k \in 1..Len(sort_input) :
        /\ i < j
        /\ SortKey(sort_input[i]) = SortKey(sort_input[j])
        /\ sort_input[i] # sort_input[j]
        /\ SortKey(sort_input[k]) # SortKey(sort_input[i])

-----------------------------------------------------------------------------
(* Termination of the listing flow *)

\* the filter was requested and kept no record: 'Nichego ne najdeno', sys.exit()
NothingFound == pc = "nothing_found"

\* the sort step (832-833) or the printing step (835) has been executed
SortOrPrintExecuted == sort_input # <<>> \/ pc \in {"table_sorted", "table_printed"}

Printed == pc = "table_printed"

\* the inputs were accepted and no filter was requested
NoFilterRequested == pc = "input_parsed" /\ ~input_connect.need_filter

\* the file had records and no filter was requested
ParsedWithoutFilter == pc = "table_parsed" /\ ~input_connect.need_filter

\* the sort step ended the flow with an exception
SortRaised == pc = "raised" /\ sort_input # <<>> /\ input_connect.need_sort

\* a requested filter that keeps no record ends in 'nothing found', and from
\* there on neither the sort step nor the printing step is executed
EmptyFilterResultHalts ==
    /\ []((input_connect.need_filter /\ loaded # <<>> /\ vacancies = <<>>) => NothingFound)
    /\ [](NothingFound => ~SortOrPrintExecuted)
    /\ [][NothingFound => NothingFound']_vars

-----------------------------------------------------------------------------
(* Inputs of the statistics flow *)

\* one sanitized csv row of the statistics file
StatRow(name, from, to, cur, area, year) ==
    [name |-> name, salary_from |-> from, salary_to |-> to, salary_currency |-> <<cur>>,
     area_name |-> area, published_at |-> Date(year, "05", "31")]

StatRows ==
    { StatRow(<<"d", "e", "v">>, Num(100), Num(200), "RUR", <<"Moscow">>, "2020"),
      StatRow(<<"q", "a">>, Num(101), Num(102), "RUR", <<"Moscow">>, "2020"),
      StatRow(<<"d", "e", "v">>, Num(2), Num(3), "USD", <<"Kazan">>, "2020"),
      StatRow(<<"q", "a">>, Num(300), Num(300), "RUR", <<"Kazan">>, "2022"),
      StatRow(<<"d", "e", "v", "o", "p", "s">>, NumF(100, 9), NumF(201, 9), "RUR", <<"Moscow">>, "2007"),
      StatRow(<<"q", "a">>, Num(1), Num(2), "RUR", <<"Omsk">>, "2006") }

\* every list of 0..MaxLen rows
StatLists == UNION {[1..n -> StatRows] : n \in 0..MaxLen}

\* two areas around the 1% share: `small` postings of Kazan among `total`,
\* the small area first or last in the file
TwoAreaList(small, total, small_first) ==
    [i \in 1..total |->
        IF (small_first /\ i <= small) \/ (~small_first /\ i > total - small)
        THEN StatRow(<<"q", "a">>, Num(300), Num(300), "RUR", <<"Kazan">>, "2022")
        ELSE StatRow(<<"d", "e", "v">>, Num(100), Num(200), "RUR", <<"Moscow">>, "2020")]

ThresholdLists ==
    { TwoAreaList(small, 100 * small + d, f) :
        small \in 1..2, d \in (0 - MaxSlack)..MaxSlack, f \in BOOLEAN }

AreaName(j) == <<"City", ToString(j)>>

\* the value pattern (a * j) mod m: distinct values when m > n and a is
\* coprime to m, ties when m is small
Pattern(a, m, j) == (a * j) % m

\* n areas; area j has one posting, and a second one when its pattern value is
\* odd; the salary of an area follows the pattern
ManyAreaList(n, a, m) ==
    LET slots == [i \in 1..(2 * n) |-> [j |-> ((i - 1) % n) + 1, second |-> i > n]]
        used == SelectSeq(slots, LAMBDA e : ~e.second \/ Pattern(a, m, e.j) % 2 = 1)
    IN  [i \in 1..Len(used) |->
            LET amount == 100 + 10 * Pattern(a, m, used[i].j) + (IF used[i].second THEN 5 ELSE 0)
            IN  StatRow(<<"d", "e", "v">>, Num(amount), Num(amount), "RUR",
                        AreaName(used[i].j), "2021")]

ManyAreaLists ==
    { ManyAreaList(n, a, m) : n \in 1..MaxAreas, a \in 1..MaxMul, m \in 2..MaxMod }

\* the answers to 'Vvedite nazvanie professii'
Keywords == { <<"d", "e", "v">>, <<"q", "a">>, <<"o", "p">>, <<"x">> }

\* rows whose currency code is not in the rate table: one published inside
\* the year range, one before it
BadCurrencyRows ==
    { StatRow(<<"q", "a">>, Num(100), Num(200), "XXX", <<"Moscow">>, "2020"),
      StatRow(<<"q", "a">>, Num(100), Num(200), "XXX", <<"Omsk">>, "2006") }

\* every list of fewer than MaxLen rows with a row in an unlisted currency
BadCurrencyLists ==
    UNION { { f \in [1..n -> StatRows \cup BadCurrencyRows] :
                \E i \in 1..n : f[i] \in BadCurrencyRows } : n \in 1..(MaxLen - 1) }

\* n postings of one area followed by one posting in an unlisted currency,
\* published before the year range in an area of its own
BadTailList(n) ==
    [i \in 1..(n + 1) |->
        IF i <= n THEN StatRow(<<"d", "e", "v">>, Num(100), Num(200), "RUR", <<"Moscow">>, "2020")
        ELSE StatRow(<<"q", "a">>, Num(100), Num(200), "XXX", <<"Omsk">>, "2006")]

\* the last posting is 1% of the list or just below
BadTailLists == { BadTailList(n) : n \in (100 - MaxSlack)..(99 + MaxSlack) }

\* the runs of the flow: a file and a keyword; the long files are read with one keyword
StatInputs ==
    ((StatLists \cup BadCurrencyLists) \X Keywords)
        \cup ((ThresholdLists \cup ManyAreaLists \cup BadTailLists) \X { <<"d", "e", "v">> })

-----------------------------------------------------------------------------
(* The statistics flow: start_data_to_stats *)

Init ==
    /\ pc = "stats_start"
    /\ input_connect = InputConnect
    /\ loaded = <<>>
    /\ vacancies = <<>>
    /\ sort_input = <<>>
    /\ err = "None"
    /\ prof_name_in = <<>>
    /\ data_stats = DataStats
    /\ report_data = <<>>
    /\ pure_in = <<>>
    /\ pure_out = <<>>

\* start_data_to_stats, lines 840-843: the two prompts and DataSet.csv_parse
csv_parse ==
    /\ pc = "stats_start"
    /\ \E run \in StatInputs :
        /\ loaded' = [i \in 1..Len(run[1]) |-> Vacancy(run[1][i], FALSE)]
        /\ vacancies' = [i \in 1..Len(run[1]) |-> Vacancy(run[1][i], FALSE)]
        /\ prof_name_in' = run[2]
    /\ pc' = "stats_parsed"
    /\ UNCHANGED <<input_connect, sort_input, err, data_stats, report_data, pure_in, pure_out>>

\* start_data_to_stats, lines 845-846: DataStats() and calculate_stats
calculate_stats ==
    /\ pc = "stats_parsed"
    /\ \E r \in {calculate_stats_result(DataStats, vacancies, prof_name_in)} :
        /\ data_stats' = r.val
        /\ err' = r.exc
        /\ pc' = IF r.exc = "None" THEN "stats_done" ELSE "raised"
    /\ UNCHANGED <<input_connect, loaded, vacancies, sort_input, prof_name_in, report_data,
                   pure_in, pure_out>>

\* start_data_to_stats, line 849: Report(data_stats.get_all())
get_all ==
    /\ pc = "stats_done"
    /\ report_data' = get_all_result(data_stats)
    /\ pc' = "report"
    /\ UNCHANGED <<input_connect, loaded, vacancies, sort_input, err, prof_name_in, data_stats,
                   pure_in, pure_out>>

\* report.generate_excel(): fill_data_years is the first renderer to run
generate_excel_years ==
    /\ pc = "report"
    /\ \E r \in {fill_data_years(report_data)} :
        IF r.exc # "None"
        THEN /\ pc' = "render_raised"
             /\ err' = r.exc
             /\ UNCHANGED pure_out
        ELSE /\ pc' = "years_filled"
             /\ pure_out' = [sheet_years |-> r.val]
             /\ UNCHANGED err
    /\ UNCHANGED <<input_connect, loaded, vacancies, sort_input, prof_name_in, data_stats,
                   report_data, pure_in>>

\* report.generate_excel(): fill_data_cities follows
generate_excel_cities ==
    /\ pc = "years_filled"
    /\ \E r \in {fill_data_cities(report_data)} :
        IF r.exc # "None"
        THEN /\ pc' = "render_raised"
             /\ err' = r.exc
             /\ UNCHANGED pure_out
        ELSE /\ pc' = "cities_filled"
             /\ pure_out' = [sheet_years |-> pure_out.sheet_years, sheet_cities |-> r.val]
             /\ UNCHANGED err
    /\ UNCHANGED <<input_connect, loaded, vacancies, sort_input, prof_name_in, data_stats,
                   report_data, pure_in>>

\* report.generate_image(): the bar charts read the maps, get_piechart builds
\* the last chart
get_piechart ==
    /\ pc = "cities_filled"
    /\ pure_out' = [sheet_years |-> pure_out.sheet_years, sheet_cities |-> pure_out.sheet_cities,
                    pie |-> get_piechart_result(report_data)]
    /\ pc' = "piechart"
    /\ UNCHANGED <<input_connect, loaded, vacancies, sort_input, err, prof_name_in, data_stats,
                   report_data, pure_in>>

Next ==
    \/ csv_parse \/ calculate_stats \/ get_all
    \/ generate_excel_years \/ generate_excel_cities \/ get_piechart

Spec == Init /\ [][Next]_vars

-----------------------------------------------------------------------------
(* Pure functions applied to enumerated arguments *)

InitPure(start, inputs) ==
    /\ pc = start
    /\ input_connect = InputConnect
    /\ loaded = <<>>
    /\ vacancies = <<>>
    /\ sort_input = <<>>
    /\ err = "None"
    /\ prof_name_in = <<>>
    /\ data_stats = DataStats
    /\ report_data = <<>>
    /\ pure_in \in inputs
    /\ pure_out = <<>>

UnchangedButPure ==
    UNCHANGED <<input_connect, loaded, vacancies, sort_input, err, prof_name_in, data_stats,
                report_data, pure_in>>

\* the amounts a salary bound can hold: a whole number, or one decimal digit
Amounts ==
    {Num(w) : w \in 0..MaxWhole} \cup {NumF(w, f) : w \in 0..MaxWhole, f \in 0..9}

\* the text of twice the amount
Twice(x) ==
    [whole |-> 2 * x.whole + (IF x.dot THEN (2 * x.frac) \div 10 ELSE 0),
     dot |-> x.dot,
     frac |-> IF x.dot THEN (2 * x.frac) % 10 ELSE 0]

InitSalary ==
    InitPure("salary_start", [amount : Amounts, currency : DOMAIN currency_to_rub])

\* the conversion of an amount and of twice the amount
convert ==
    /\ pc = "salary_start"
    /\ pure_out' = [x |-> to_rub(pure_in.amount, currency_to_rub[pure_in.currency]),
                    x2 |-> to_rub(Twice(pure_in.amount), currency_to_rub[pure_in.currency])]
    /\ pc' = "salary_done"
    /\ UnchangedButPure

NextSalary == convert

SpecSalary == InitSalary /\ [][NextSalary]_vars

\* dicts of 0..MaxAreas entries whose values follow a pattern, and every dict
\* of up to MaxLen entries with values in 0..2
DicInputs ==
    { [j \in 1..n |-> <<AreaName(j), Pattern(a, m, j)>>] :
        n \in 0..MaxAreas, a \in 0..MaxMul, m \in 1..MaxMod }
    \cup UNION { { [j \in 1..n |-> <<AreaName(j), f[j]>>] : f \in [1..n -> 0..2] } : n \in 0..MaxLen }

InitDic == InitPure("dic_start", DicInputs)

sort_dic ==
    /\ pc = "dic_start"
    /\ pure_out' = get_sorted_dic(pure_in)
    /\ pc' = "dic_done"
    /\ UnchangedButPure

NextDic == sort_dic

SpecDic == InitDic /\ [][NextDic]_vars

-----------------------------------------------------------------------------
(* Properties of the pure functions *)

\* C2 as claimed: for every supported currency and every amount, with or
\* without a fractional part, converting twice the amount gives exactly twice
\* the conversion of the amount.
C2_LinearAllAmounts ==
    pc = "salary_done" => pure_out.x2 = 2 * pure_out.x

\* C2 amended: the conversion is linear for every amount whose fractional part
\* is below one half (every whole amount included).
C2_LinearBelowHalf ==
    (pc = "salary_done" /\ (pure_in.amount.dot => pure_in.amount.frac < 5))
    => pure_out.x2 = 2 * pure_out.x

\* a foreign-currency amount with a fractional part below one half is doubled
C2_Witness ==
    /\ pc = "salary_done"
    /\ pure_in.amount.dot
    /\ pure_in.amount.frac \in 1..4
    /\ pure_in.amount.whole > 0
    /\ pure_in.currency = "UZS"
    /\ pure_out.x > 0

Min(a, b) == IF a < b THEN a ELSE b

\* C5: get_sorted_dic returns min(n, 10) entries of the dict, every kept value
\* is >= every dropped value, and the kept values are in non-increasing order.
C5_TopTen ==
    pc = "dic_done"
    => /\ Len(pure_out) = Min(Len(pure_in), TopN)
       /\ Range(pure_out) \subseteq Range(pure_in)
       /\ \A i, j \in 1..Len(pure_out) : i < j => pure_out[i][1] # pure_out[j][1]
       /\ \A k \in Range(pure_out) : \A d \in Range(pure_in) \ Range(pure_out) : k[2] >= d[2]
       /\ \A i \in 1..(Len(pure_out) - 1) : pure_out[i][2] >= pure_out[i + 1][2]

\* 12 entries with distinct values, the two smallest among the first ten
C5_Witness ==
    /\ pc = "dic_done"
    /\ Len(pure_in) = 12
    /\ \A i, j \in 1..12 : i # j => pure_in[i][2] # pure_in[j][2]
    /\ Len(pure_out) = 10
    /\ \E i, j \in 1..10 : i # j /\ pure_in[i] \notin Range(pure_out) /\ pure_in[j] \notin Range(pure_out)

-----------------------------------------------------------------------------
(* Properties of the statistics flow *)

StatsDone == pc \in {"stats_done", "report"}

\* the postings of the input published in year y, by index
PostingsOf(y) == {i \in DOMAIN loaded : loaded[i].published_at[1] = ToString(y)}
PostingsIn(area) == {i \in DOMAIN loaded : loaded[i].area_name = area}
Matching(I) == {i \in I : Contains(data_stats.prof_name, loaded[i].name)}
AreasOf(vs) == {vs[i].area_name : i \in DOMAIN vs}

\* the midpoint of a posting in roubles, as a numerator over 2 * RateScale
Mid2(v) ==
    (v.salary.salary_from.whole + v.salary.salary_to.whole)
        * currency_to_rub[v.salary.salary_currency[1]]

SumMid(I) == SumSeq([i \in 1..Len(loaded) |-> IF i \in I THEN Mid2(loaded[i]) ELSE 0])

\* avg is the mean midpoint of the postings I cut to an integer (0 for no posting)
IsTruncatedMean(avg, I) ==
    LET D == 2 * RateScale * Cardinality(I)
    IN  IF I = {} THEN avg = 0
        ELSE D * avg <= SumMid(I) /\ SumMid(I) - D * avg < D

\* avg is an integer nearest to the mean midpoint of the postings I
IsNearestMean(avg, I) ==
    LET D == 2 * RateScale * Cardinality(I)
    IN  IF I = {} THEN avg = 0
        ELSE 2 * (SumMid(I) - D * avg) <= D /\ 2 * (D * avg - SumMid(I)) <= D

\* C4: an area is kept by the geography pass iff count * 100 >= total: an area
\* below 1% is in neither area map, and an area at 1% or above is in both
\* (when no more than 10 areas qualify, so that the top-10 cut drops none).
C4_ThresholdClosed ==
    StatsDone =>
        LET kept == {a \in AreasOf(loaded) :
                        Cardinality(PostingsIn(a)) * 100 >= Len(loaded)}
        IN  /\ Range(Keys(data_stats.areas_with_salrs)) \subseteq kept
            /\ Range(Keys(data_stats.areas_with_shares)) \subseteq kept
            /\ Cardinality(kept) <= TopN
                => /\ Range(Keys(data_stats.areas_with_salrs)) = kept
                   /\ Range(Keys(data_stats.areas_with_shares)) = kept

\* an area with exactly 1% of the postings is listed in both maps
C4_Witness ==
    /\ StatsDone
    /\ \E a \in AreasOf(loaded) :
        /\ Cardinality(PostingsIn(a)) * 100 = Len(loaded)
        /\ HasKey(data_stats.areas_with_salrs, a)
        /\ HasKey(data_stats.areas_with_shares, a)

\* C6 as claimed: every recorded average (year, profession, area) is the mean
\* midpoint rounded to the nearest integer.
C6_AvgRounded ==
    StatsDone =>
        /\ \A y \in FirstYear..LastYear : PostingsOf(y) # {} =>
            /\ HasKey(data_stats.salary_years, y)
            /\ IsNearestMean(Get(data_stats.salary_years, y), PostingsOf(y))
            /\ HasKey(data_stats.salary_prof, y)
            /\ IsNearestMean(Get(data_stats.salary_prof, y), Matching(PostingsOf(y)))
        /\ \A a \in Range(Keys(data_stats.areas_with_salrs)) :
            IsNearestMean(Get(data_stats.areas_with_salrs, a), PostingsIn(a))

\* C6 amended: every recorded average (year, profession, area) is the mean
\* midpoint cut to an integer by int(), that is rounded down: a mean of 200.6
\* is recorded as 200.
C6_AvgTruncated ==
    StatsDone =>
        /\ \A y \in FirstYear..LastYear : PostingsOf(y) # {} =>
            /\ HasKey(data_stats.salary_years, y)
            /\ IsTruncatedMean(Get(data_stats.salary_years, y), PostingsOf(y))
            /\ HasKey(data_stats.salary_prof, y)
            /\ IsTruncatedMean(Get(data_stats.salary_prof, y), Matching(PostingsOf(y)))
        /\ \A a \in Range(Keys(data_stats.areas_with_salrs)) :
            IsTruncatedMean(Get(data_stats.areas_with_salrs, a), PostingsIn(a))

\* a year whose mean midpoint lies more than one half above the recorded value
C6_Witness ==
    /\ StatsDone
    /\ \E y \in FirstYear..LastYear :
        /\ PostingsOf(y) # {}
        /\ HasKey(data_stats.salary_years, y)
        /\ 2 * (SumMid(PostingsOf(y))
                - 2 * RateScale * Cardinality(PostingsOf(y)) * Get(data_stats.salary_years, y))
             > 2 * RateScale * Cardinality(PostingsOf(y))

\* the year maps a run with keyword kw produces from the same input
YearMapsFor(kw) ==
    LET r == calculate_stats_result(DataStats, loaded, kw).val
    IN  <<r.salary_years, r.count_years>>

\* C8: for a year with postings none of which contains the keyword, the
\* profession maps record 0 and 0, count_years holds the number of postings of
\* the year, and salary_years and count_years are the ones any other keyword gives.
C8_EmptyProfessionYear ==
    StatsDone =>
        \A y \in FirstYear..LastYear :
            (PostingsOf(y) # {} /\ Matching(PostingsOf(y)) = {}) =>
                /\ HasKey(data_stats.salary_prof, y) /\ Get(data_stats.salary_prof, y) = 0
                /\ HasKey(data_stats.count_prof, y) /\ Get(data_stats.count_prof, y) = 0
                /\ HasKey(data_stats.count_years, y)
                /\ Get(data_stats.count_years, y) = Cardinality(PostingsOf(y))
                /\ HasKey(data_stats.salary_years, y)
                /\ \A kw \in Keywords :
                    <<data_stats.salary_years, data_stats.count_years>> = YearMapsFor(kw)

\* a year with two postings, none matching the keyword, and another year with a match
C8_Witness ==
    /\ StatsDone
    /\ \E y, z \in FirstYear..LastYear :
        /\ Cardinality(PostingsOf(y)) >= 2
        /\ Matching(PostingsOf(y)) = {}
        /\ Matching(PostingsOf(z)) # {}

\* C9: when every posting of a non-empty input has the same area, that area is
\* the single entry of both area maps and its share is exactly 1.0.
C9_SingleArea ==
    (StatsDone /\ Len(loaded) > 0 /\ \A i \in DOMAIN loaded : loaded[i].area_name = loaded[1].area_name)
    => /\ Keys(data_stats.areas_with_salrs) = <<loaded[1].area_name>>
       /\ data_stats.areas_with_shares = << <<loaded[1].area_name, ShareScale>> >>

\* three postings, all of one area
C9_Witness ==
    /\ StatsDone
    /\ Len(loaded) = 3
    /\ \A i \in DOMAIN loaded : loaded[i].area_name = loaded[1].area_name
    /\ Len(data_stats.areas_with_shares) = 1

\* C10 as claimed: after aggregation over a non-empty input salary_years and
\* count_years have an entry for every year 2007..2022, 0 for an empty year.
C10_AllYearsPresent ==
    (StatsDone /\ Len(loaded) > 0) =>
        \A y \in FirstYear..LastYear :
            /\ HasKey(data_stats.salary_years, y)
            /\ HasKey(data_stats.count_years, y)
            /\ PostingsOf(y) = {} =>
                Get(data_stats.salary_years, y) = 0 /\ Get(data_stats.count_years, y) = 0

\* C10 amended: salary_years and count_years have an entry for exactly the
\* years of 2007..2022 in which a posting was published; a year without
\* postings has no entry.
C10_YearsWithPostings ==
    (StatsDone /\ Len(loaded) > 0) =>
        /\ Range(Keys(data_stats.salary_years)) = {y \in FirstYear..LastYear : PostingsOf(y) # {}}
        /\ Range(Keys(data_stats.count_years)) = {y \in FirstYear..LastYear : PostingsOf(y) # {}}

\* postings in the first and the last year of the range and one before it
C10_Witness ==
    /\ StatsDone
    /\ PostingsOf(FirstYear) # {}
    /\ PostingsOf(LastYear) # {}
    /\ PostingsOf(FirstYear - 1) # {}
    /\ Len(data_stats.salary_years) = 2

\* calculate_stats has returned or raised
StatsRan == pc \in {"stats_done", "report", "raised"}

\* C11: calculate_stats on an empty record list is signalled to the caller as
\* an error; it does not complete normally with an empty result.
C11_EmptyInputSignalled ==
    (StatsRan /\ Len(loaded) = 0) => (pc = "raised" /\ err # "None")

-----------------------------------------------------------------------------
(* The pipeline functions applied to enumerated record lists *)

\* a complete row of the listing file
FullRow(name, description, exp, premium, employer, area, published_at) ==
    [name |-> name, description |-> description, key_skills |-> <<"Python", "\n", "SQL">>,
     experience_id |-> <<exp>>, premium |-> <<premium>>, employer_name |-> employer,
     salary_from |-> Num(100), salary_to |-> Num(200), salary_gross |-> <<"True">>,
     salary_currency |-> <<"RUR">>, area_name |-> <<area>>, published_at |-> published_at]

FullRows ==
    { FullRow(<<"d", "e", "v">>, <<"text">>, "noExperience", "False", <<"Acme">>, "Moscow",
              Date("2020", "05", "31")),
      FullRow(<<"d", "e", "v", "o", "p", "s">>, <<"text", " ", "more">>, "between1and3", "True",
              <<"Acme", " ", "Ltd">>, "Kazan", Date("2020", "12", "01")),
      FullRow(<<"q", "a">>, <<"other">>, "intern", "False", <<"Acme">>, "Moscow",
              <<"2021", "-", "05", "-", "31", "T", "09:00:00+0300">>),
      FullRow(<<"q", "a", " ", "d", "e", "v">>, <<"text">>, "moreThan6", "maybe", <<"Ltd">>, "Omsk",
              Date("2021", "05", "31")) }

\* the record lists handed to the pipeline: every list of 0..MaxLen listing
\* records, and every list of up to 2 statistics records
PipeLists ==
    UNION { { [i \in 1..n |-> Vacancy(f[i], TRUE)] : f \in [1..n -> FullRows] } : n \in 0..MaxLen }
    \cup UNION { { [i \in 1..n |-> Vacancy(f[i], FALSE)] : f \in [1..n -> StatRows] } : n \in 1..2 }

\* key, value, year_only of a filter call
FilterCases ==
    { [key |-> c[1], value |-> c[2], year_only |-> c[3]] : c \in
        { <<"Nazvanie", <<"d", "e", "v">>, FALSE>>, <<"Nazvanie", <<"e", "v", "o">>, FALSE>>,
          <<"Nazvanie", <<"v", "d">>, FALSE>>, <<"Nazvanie", <<>>, FALSE>>,
          <<"Data publikacii vakansii", <<"2020">>, TRUE>>,
          <<"Data publikacii vakansii", <<"2021">>, TRUE>>,
          <<"Data publikacii vakansii", <<"05">>, TRUE>>,
          <<"Data publikacii vakansii", <<"31", ".", "05", ".", "2020">>, TRUE>>,
          <<"Data publikacii vakansii", <<"31", ".", "05", ".", "2020">>, FALSE>>,
          <<"Data publikacii vakansii", <<"31", ".", "05", ".", "2021">>, FALSE>>,
          <<"Data publikacii vakansii", <<"2020", "-", "05", "-", "31">>, FALSE>>,
          <<"Data publikacii vakansii", <<"2020">>, FALSE>>,
          <<"Opyt raboty", <<"Net opyta">>, FALSE>>,
          <<"Opyt raboty", <<"Ot 1 goda do 3 let">>, FALSE>>,
          <<"Opyt raboty", <<"Bolee 6 let">>, FALSE>>,
          <<"Opyt raboty", <<"noExperience">>, FALSE>>,
          <<"Premium-vakansiya", <<"Da">>, FALSE>>, <<"Premium-vakansiya", <<"Net">>, FALSE>>,
          <<"Premium-vakansiya", <<"True">>, FALSE>>,
          <<"Opisanie", <<"text">>, FALSE>>, <<"Opisanie", <<"other">>, FALSE>>,
          <<"Kompaniya", <<"Acme">>, FALSE>>, <<"Kompaniya", <<"Acme", " ", "Ltd">>, FALSE>>,
          <<"Kompaniya", <<"acme">>, FALSE>>,
          <<"Nazvanie regiona", <<"Moscow">>, FALSE>>, <<"Nazvanie regiona", <<"Kazan">>, FALSE>>,
          <<"Nazvanie regiona", <<"Mos">>, FALSE>>,
          <<"Zarplata", <<"100">>, FALSE>>, <<"name", <<"d", "e", "v">>, FALSE>>,
          <<"", <<>>, FALSE>> } }

\* key and reverse of a sort call
SortCases ==
    { [key |-> k, reverse |-> r] :
        k \in {"Nazvanie", "Oklad", "Opyt raboty", "Opisanie", "Zarplata", "name", ""},
        r \in BOOLEAN }

InitPipeline ==
    InitPure("pipe_start",
             [op : {"filter"}, vs : PipeLists, arg : FilterCases]
                \cup [op : {"sort"}, vs : PipeLists, arg : SortCases])

\* filter_vacancies(vacancies, key, value) / DataStats.filter_vacancies(..., year_only)
apply_filter ==
    /\ pc = "pipe_start"
    /\ pure_in.op = "filter"
    /\ pure_out' = filter_vacancies(pure_in.vs, pure_in.arg.key, pure_in.arg.value,
                                    pure_in.arg.year_only)
    /\ pc' = "pipe_filtered"
    /\ UnchangedButPure

\* sort_vacancies(vacancies, key, reverse)
apply_sort ==
    /\ pc = "pipe_start"
    /\ pure_in.op = "sort"
    /\ pure_out' = sort_vacancies(pure_in.vs, pure_in.arg.key, pure_in.arg.reverse)
    /\ pc' = "pipe_sorted"
    /\ UnchangedButPure

NextPipeline == apply_filter \/ apply_sort

SpecPipeline == InitPipeline /\ [][NextPipeline]_vars

-----------------------------------------------------------------------------
(* Properties of the pipeline functions *)

PipeFiltered == pc = "pipe_filtered"
PipeRan == pc \in {"pipe_filtered", "pipe_sorted"}

\* the ten localized field names the program knows
LocalizedNames == all_fields \cup {"Identifikator valyuty oklada"}

\* the list holds complete listing records
FullRecords(vs) == \A i \in DOMAIN vs : "description" \in DOMAIN vs[i]

\* C12: a filter or a sort with a field name outside the localized-name
\* mapping raises for any record, and the error leaves filter_vacancies /
\* sort_vacancies: no list is returned.
C12_UnknownFieldPropagates ==
    (PipeRan /\ pure_in.arg.key \notin LocalizedNames /\ Len(pure_in.vs) > 0)
    => pure_out.exc = "KeyError"

\* a sort of two records and a filter-free key name that is not localized
C12_Witness ==
    /\ pc = "pipe_sorted"
    /\ pure_in.arg.key = "Zarplata"
    /\ Len(pure_in.vs) = 2
    /\ pure_out.exc = "KeyError"

\* a categorical code of the input files in lower case
Folded(code) ==
    CASE code = "noExperience" -> "noexperience" [] code = "moreThan6" -> "morethan6"
      [] code = "False" -> "false" [] code = "True" -> "true" [] OTHER -> code

\* the localized display name of a record's categorical code, <<>> when the
\* code is not in the table
Display(v, field) ==
    LET code == Folded(v[field][1])
    IN  IF code \in DOMAIN value_to_rus[field] THEN value_to_rus[field][code] ELSE <<>>

Categorical(key) ==
    CASE key = "Opyt raboty" -> "experience_id" [] key = "Premium-vakansiya" -> "premium"
      [] OTHER -> ""

\* C14: a filter on experience or premium keeps exactly the records whose
\* code's display name equals the target; a list with a record whose code is
\* not in the localization table makes the filter raise.
C14_CategoricalFilter ==
    (PipeFiltered /\ Categorical(pure_in.arg.key) # "" /\ FullRecords(pure_in.vs)) =>
        LET field == Categorical(pure_in.arg.key)
        IN  IF \E i \in DOMAIN pure_in.vs : Display(pure_in.vs[i], field) = <<>>
            THEN pure_out.exc = "KeyError"
            ELSE /\ pure_out.exc = "None"
                 /\ pure_out.val =
                        SelectSeq(pure_in.vs, LAMBDA v : Display(v, field) = pure_in.arg.value)

\* an experience filter that keeps one of two records with known codes
C14_Witness ==
    /\ PipeFiltered
    /\ pure_in.arg.key = "Opyt raboty"
    /\ Len(pure_in.vs) = 2
    /\ pure_out.exc = "None"
    /\ Len(pure_out.val) = 1

\* sub occurs in s at some offset, position by position
Occurs(sub, s) ==
    \E k \in 0..Len(s) :
        \A m \in 1..Len(sub) : k + m <= Len(s) /\ s[k + m] = sub[m]

\* C15: a filter on the name keeps exactly the records whose name has the
\* target as a substring, for listing records and for statistics records.
C15_NameSubstring ==
    (PipeFiltered /\ pure_in.arg.key = "Nazvanie") =>
        /\ pure_out.exc = "None"
        /\ pure_out.val = SelectSeq(pure_in.vs, LAMBDA v : Occurs(pure_in.arg.value, v.name))

\* a target inside a longer name: one record kept, one dropped
C15_Witness ==
    /\ PipeFiltered
    /\ pure_in.arg.key = "Nazvanie"
    /\ pure_in.arg.value = <<"e", "v", "o">>
    /\ Len(pure_in.vs) = 2
    /\ pure_out.exc = "None"
    /\ Len(pure_out.val) = 1

\* the parts of published_at = YYYY-MM-DDThh:mm:ss+zzzz
YearOf(v) == v.published_at[1]
MonthOf(v) == v.published_at[3]
DayOf(v) == v.published_at[5]

\* C16: with year_only a date filter keeps exactly the records whose year
\* equals the target, whatever the month and day; without it, exactly the
\* records whose date written DD.MM.YYYY equals the target.
C16_DateFilter ==
    (PipeFiltered /\ pure_in.arg.key = "Data publikacii vakansii") =>
        /\ pure_out.exc = "None"
        /\ pure_out.val =
             SelectSeq(pure_in.vs, LAMBDA v :
                IF pure_in.arg.year_only THEN pure_in.arg.value = <<YearOf(v)>>
                ELSE pure_in.arg.value = <<DayOf(v), ".", MonthOf(v), ".", YearOf(v)>>)

\* a full-date filter that keeps one of two records of the same year
C16_Witness ==
    /\ PipeFiltered
    /\ pure_in.arg.key = "Data publikacii vakansii"
    /\ ~pure_in.arg.year_only
    /\ Len(pure_in.vs) = 2
    /\ YearOf(pure_in.vs[1]) = YearOf(pure_in.vs[2])
    /\ pure_out.exc = "None"
    /\ Len(pure_out.val) = 1

\* the attribute the claim compares for a field
RawAttribute(v, key) ==
    CASE key = "Opisanie" -> v.description [] key = "Kompaniya" -> v.employer_name
      [] key = "Nazvanie regiona" -> v.area_name

\* C17: a filter on description, employer name or area name keeps exactly the
\* records whose raw attribute equals the target, and raises for no complete record.
C17_ExactEquality ==
    (PipeFiltered /\ pure_in.arg.key \in {"Opisanie", "Kompaniya", "Nazvanie regiona"}
        /\ FullRecords(pure_in.vs)) =>
        /\ pure_out.exc = "None"
        /\ pure_out.val =
             SelectSeq(pure_in.vs, LAMBDA v : RawAttribute(v, pure_in.arg.key) = pure_in.arg.value)

\* the outcome of the predicate for a record under the arguments of the call
Verdict(v) == is_suitable(v, pure_in.arg.key, pure_in.arg.value, pure_in.arg.year_only)

Satisfies(v) == Verdict(v).exc = "None" /\ Verdict(v).val

\* the predicate returns False for every record of the input
NothingMatches == \A i \in 1..Len(pure_in.vs) : Verdict(pure_in.vs[i]) = Ok(FALSE)

\* C21: filter_vacancies returns exactly the records of the input that satisfy
\* the predicate, each once and in input order, returns an empty list without
\* error when nothing matches, and leaves the input list as it was.
C21_FilterSubsequence ==
    [][apply_filter =>
        /\ pure_in' = pure_in
        /\ pure_out'.exc = "None" => pure_out'.val = SelectSeq(pure_in.vs, Satisfies)
        /\ NothingMatches => pure_out' = Ok(<<>>)]_vars

\* the first and the third of three records are kept, the second is dropped
C21_Witness ==
    /\ PipeFiltered
    /\ pure_out.exc = "None"
    /\ Len(pure_in.vs) = 3
    /\ pure_in.vs[1] # pure_in.vs[3]
    /\ pure_out.val = <<pure_in.vs[1], pure_in.vs[3]>>

-----------------------------------------------------------------------------
(* Properties of the statistics flow: unlisted currency codes *)

\* the ten codes of the rate table
SupportedCodes == {"AZN", "BYR", "EUR", "GEL", "KGS", "KZT", "RUR", "UAH", "USD", "UZS"}

\* posting i belongs to a year subset of the range or to an area with at least 1% of the postings
IsNormalized(i) ==
    \/ \E y \in FirstYear..LastYear : i \in PostingsOf(y)
    \/ Cardinality(PostingsIn(loaded[i].area_name)) * 100 >= Len(loaded)

Unsupported(i) == loaded[i].salary.salary_currency[1] \notin SupportedCodes

\* C13: an aggregation run with a posting in an unlisted currency inside a year
\* subset or a kept area raises KeyError and produces no result; the other
\* runs complete.
C13_UnknownCurrencyAborts ==
    StatsRan =>
        IF \E i \in DOMAIN loaded : Unsupported(i) /\ IsNormalized(i)
        THEN pc = "raised" /\ err = "KeyError" /\ report_data = <<>>
        ELSE pc # "raised"

\* a run that got through the year loop and raised in the geography pass
C13_Witness ==
    /\ pc = "raised"
    /\ err = "KeyError"
    /\ Len(loaded) = 2
    /\ \A i \in DOMAIN loaded : Unsupported(i) => loaded[i].published_at[1] = "2006"
    /\ Len(data_stats.salary_years) = 1

-----------------------------------------------------------------------------
(* A DataStats object used for two runs: the result of the first run is kept
   while calculate_stats runs again and the renderers read the result *)

\* the input of the first run, and the input and keyword of the second
RerunInputs ==
    [first : UNION {[1..n -> StatRows] : n \in 0..(MaxLen - 1)},
     second : UNION {[1..n -> StatRows] : n \in 0..1},
     prof_name : { <<"d", "e", "v">>, <<"q", "a">> }]

InitRerun == InitPure("rerun_start", RerunInputs)

\* data_stats = DataStats(); data_stats.calculate_stats(vacancies, prof_name)
first_run ==
    /\ pc = "rerun_start"
    /\ \E r \in {calculate_stats_result(
                    DataStats, [i \in 1..Len(pure_in.first) |-> Vacancy(pure_in.first[i], FALSE)],
                    <<"d", "e", "v">>)} :
        /\ data_stats' = r.val
        /\ err' = r.exc
        /\ pc' = IF r.exc = "None" THEN "first_done" ELSE "raised"
    /\ UNCHANGED <<input_connect, loaded, vacancies, sort_input, prof_name_in, report_data,
                   pure_in, pure_out>>

\* result = data_stats.get_all(); pure_out keeps what the result held when it was returned
take_result ==
    /\ pc = "first_done"
    /\ report_data' = get_all_result(data_stats)
    /\ pure_out' = get_all_result(data_stats)
    /\ pc' = "result_taken"
    /\ UNCHANGED <<input_connect, loaded, vacancies, sort_input, err, prof_name_in, data_stats,
                   pure_in>>

\* Report(result).generate_excel() / generate_image(): the renderers read the maps
render ==
    /\ pc = "result_taken"
    /\ pc' = "rendered"
    /\ UNCHANGED <<input_connect, loaded, vacancies, sort_input, err, prof_name_in, data_stats,
                   report_data, pure_in, pure_out>>

\* data_stats.calculate_stats(other_vacancies, other_name) on the same object
second_run ==
    /\ pc \in {"result_taken", "rendered"}
    /\ \E vs \in {[i \in 1..Len(pure_in.second) |-> Vacancy(pure_in.second[i], FALSE)]} :
        /\ \E r \in {calculate_stats_result(data_stats, vs, pure_in.prof_name)} :
            /\ data_stats' = r.val
            /\ err' = r.exc
        /\ report_data' = result_after_rerun(report_data, data_stats, vs, pure_in.prof_name)
    /\ pc' = "rerun_done"
    /\ UNCHANGED <<input_connect, loaded, vacancies, sort_input, prof_name_in, pure_in, pure_out>>

NextRerun == first_run \/ take_result \/ render \/ second_run

SpecRerun == InitRerun /\ [][NextRerun]_vars

\* C18: once get_all has returned a result, no later operation (another
\* calculate_stats run on the same object, a renderer reading the result)
\* changes any of the six maps of the result.
C18_ResultNeverMutated ==
    pc \in {"result_taken", "rendered", "rerun_done"} =>
        /\ report_data.salary_years = pure_out.salary_years
        /\ report_data.count_years = pure_out.count_years
        /\ report_data.salary_prof = pure_out.salary_prof
        /\ report_data.count_prof = pure_out.count_prof
        /\ report_data.areas_with_salrs = pure_out.areas_with_salrs
        /\ report_data.areas_with_shares = pure_out.areas_with_shares

-----------------------------------------------------------------------------
(* The two loops of the aggregator with their iterations run side by side.
   Every iteration executes its statements in program order; the statements
   of different iterations interleave freely.  An iteration of a year
   without postings executes the filter and the length test only and writes
   nothing, so the year iterations that take part are those of the years
   with postings; calculate_stats_areas starts after the year loop. *)

InterleaveInputs ==
    [vs : UNION {[1..n -> StatRows] : n \in 0..(MaxLen - 1)},
     prof_name : { <<"d", "e", "v">>, <<"q", "a">> }]

InitInterleave == InitPure("il_start", InterleaveInputs)

\* a dict with every entry replaced by the one written
write_entry_replacing(dic, key, value) == << <<key, value>> >>

\* dic_salary[key] = ... / dic_count[key] = ... in set_value_dicts
write_entry(dic, key, value) == Put(dic, key, value)

\* an iteration before its first statement
NewIteration == [at |-> "filter", fields |-> <<>>, grabbed |-> 0]

\* calculate_stats up to the loop: prof_name is set, the iterations are created
il_begin ==
    /\ pc = "il_start"
    /\ loaded' = [i \in 1..Len(pure_in.vs) |-> Vacancy(pure_in.vs[i], FALSE)]
    /\ data_stats' = [DataStats EXCEPT !.prof_name = pure_in.prof_name]
    /\ pure_out' =
            [w |-> [y \in {y \in FirstYear..LastYear :
                            \E i \in 1..Len(pure_in.vs) : pure_in.vs[i].published_at[1] = ToString(y)}
                        |-> NewIteration],
             heap |-> <<>>, cur |-> 0, dic_areas |-> <<>>]
    /\ pc' = "il_years"
    /\ UNCHANGED <<input_connect, vacancies, sort_input, err, prof_name_in, report_data, pure_in>>

\* the next statement of the iteration of year y (lines 466-470 with the two
\* assignments of set_value_dicts)
year_step(y) ==
    /\ pc = "il_years"
    /\ y \in DOMAIN pure_out.w
    /\ LET me == pure_out.w[y]
           goto(at, fields) ==
                pure_out' = [pure_out EXCEPT !.w[y] = [at |-> at, fields |-> fields, grabbed |-> 0]]
       IN  CASE me.at = "filter" ->
                    /\ goto("salary", filter_vacancies(loaded, "Data publikacii vakansii",
                                                       <<ToString(y)>>, TRUE).val)
                    /\ UNCHANGED data_stats
             [] me.at = "salary" ->
                    /\ data_stats' = [data_stats EXCEPT !.salary_years =
                                        write_entry(@, y, get_avg_salary(me.fields).val)]
                    /\ goto("count", me.fields)
             [] me.at = "count" ->
                    /\ data_stats' = [data_stats EXCEPT !.count_years =
                                        write_entry(@, y, Len(me.fields))]
                    /\ goto("filter_prof", me.fields)
             [] me.at = "filter_prof" ->
                    /\ goto("salary_prof", filter_vacancies(me.fields, "Nazvanie",
                                                            data_stats.prof_name, FALSE).val)
                    /\ UNCHANGED data_stats
             [] me.at = "salary_prof" ->
                    /\ data_stats' = [data_stats EXCEPT !.salary_prof =
                                        write_entry(@, y, get_avg_salary(me.fields).val)]
                    /\ goto("count_prof", me.fields)
             [] me.at = "count_prof" ->
                    /\ data_stats' = [data_stats EXCEPT !.count_prof =
                                        write_entry(@, y, Len(me.fields))]
                    /\ goto("done", me.fields)
             [] me.at = "done" -> FALSE
    /\ UNCHANGED <<pc, input_connect, loaded, vacancies, sort_input, err, prof_name_in,
                   report_data, pure_in>>

\* calculate_stats_areas up to its loop (lines 490-495); the dict objects that
\* self.areas_with_shares is bound to over time are kept in heap, cur is the
\* one it is bound to now
areas_begin ==
    /\ pc = "il_years"
    /\ \A y \in DOMAIN pure_out.w : pure_out.w[y].at = "done"
    /\ \E dic_areas \in {count_areas(loaded)} :
        pure_out' =
            [w |-> [a \in {a \in Range(Keys(dic_areas)) :
                            meets_threshold(Get(dic_areas, a), Len(loaded))} |-> NewIteration],
             heap |-> <<data_stats.areas_with_shares>>, cur |-> 1, dic_areas |-> dic_areas]
    /\ pc' = "il_areas"
    /\ UNCHANGED <<input_connect, loaded, vacancies, sort_input, err, prof_name_in, data_stats,
                   report_data, pure_in>>

\* the next statement of the iteration of area a (lines 497-500): the call of
\* set_value_dicts binds its dict parameters to the objects the attributes
\* hold at that moment; the comprehension reads the attribute again
area_step(a) ==
    /\ pc = "il_areas"
    /\ a \in DOMAIN pure_out.w
    /\ LET me == pure_out.w[a]
       IN  CASE me.at = "filter" ->
                    /\ pure_out' = [pure_out EXCEPT !.w[a] =
                            [at |-> "bind", grabbed |-> 0,
                             fields |-> filter_vacancies(loaded, "Nazvanie regiona", a, FALSE).val]]
                    /\ UNCHANGED data_stats
             [] me.at = "bind" ->
                    /\ pure_out' = [pure_out EXCEPT !.w[a].at = "salary",
                                                    !.w[a].grabbed = pure_out.cur]
                    /\ UNCHANGED data_stats
             [] me.at = "salary" ->
                    /\ data_stats' = [data_stats EXCEPT !.areas_with_salrs =
                                        write_entry(@, a, get_avg_salary(me.fields).val)]
                    /\ pure_out' = [pure_out EXCEPT !.w[a].at = "count"]
             [] me.at = "count" ->
                    /\ pure_out' = [pure_out EXCEPT
                            !.w[a].at = "rebind",
                            !.heap[me.grabbed] = write_entry(@, a, Len(me.fields))]
                    /\ UNCHANGED data_stats
             [] me.at = "rebind" ->
                    /\ pure_out' = [pure_out EXCEPT
                            !.w[a].at = "done",
                            !.heap = Append(@,
                                [i \in 1..Len(pure_out.heap[pure_out.cur]) |->
                                    <<pure_out.heap[pure_out.cur][i][1],
                                      format_4f(Get(pure_out.dic_areas,
                                                    pure_out.heap[pure_out.cur][i][1]),
                                                Len(loaded))>>]),
                            !.cur = Len(pure_out.heap) + 1]
                    /\ UNCHANGED data_stats
             [] me.at = "done" -> FALSE
    /\ UNCHANGED <<pc, input_connect, loaded, vacancies, sort_input, err, prof_name_in,
                   report_data, pure_in>>

\* lines 503-504 after the loop
il_finish ==
    /\ pc = "il_areas"
    /\ \A a \in DOMAIN pure_out.w : pure_out.w[a].at = "done"
    /\ data_stats' = [data_stats EXCEPT
            !.areas_with_salrs = get_sorted_dic(@),
            !.areas_with_shares = get_sorted_dic(pure_out.heap[pure_out.cur])]
    /\ pc' = "il_done"
    /\ UNCHANGED <<input_connect, loaded, vacancies, sort_input, err, prof_name_in, report_data,
                   pure_in, pure_out>>

NextInterleave ==
    \/ il_begin
    \/ \E y \in FirstYear..LastYear : year_step(y)
    \/ areas_begin
    \/ \E a \in {r.area_name : r \in StatRows} : area_step(a)
    \/ il_finish

SpecInterleave == InitInterleave /\ [][NextInterleave]_vars

\* the maps hold the same entries
SameEntries(dic1, dic2) == Range(dic1) = Range(dic2)

\* what the sequential program computes from the same input
Sequential == calculate_stats_result(DataStats, loaded, data_stats.prof_name).val

\* C19 as claimed: whatever the interleaving of the iterations of the year
\* loop and of the per-area loop, the six final maps are those of the
\* sequential order.
C19_AnyInterleaving ==
    pc = "il_done" =>
        /\ SameEntries(data_stats.salary_years, Sequential.salary_years)
        /\ SameEntries(data_stats.count_years, Sequential.count_years)
        /\ SameEntries(data_stats.salary_prof, Sequential.salary_prof)
        /\ SameEntries(data_stats.count_prof, Sequential.count_prof)
        /\ SameEntries(data_stats.areas_with_salrs, Sequential.areas_with_salrs)
        /\ SameEntries(data_stats.areas_with_shares, Sequential.areas_with_shares)

\* C19 amended: whatever the interleaving of the iterations of the year loop,
\* the four year maps hold the entries of the sequential order.
C19_YearIterationsIndependent ==
    pc \in {"il_areas", "il_done"} =>
        /\ SameEntries(data_stats.salary_years, Sequential.salary_years)
        /\ SameEntries(data_stats.count_years, Sequential.count_years)
        /\ SameEntries(data_stats.salary_prof, Sequential.salary_prof)
        /\ SameEntries(data_stats.count_prof, Sequential.count_prof)

\* two year iterations have run, the later year has written its average first
C19_Witness ==
    /\ pc = "il_areas"
    /\ Len(data_stats.salary_years) = 2
    /\ data_stats.salary_years[1][1] > data_stats.salary_years[2][1]
    /\ data_stats.count_years[1][1] < data_stats.count_years[2][1]

-----------------------------------------------------------------------------
(* Properties of the listing flow: the salary sort key *)

SortedBySalary == SortDone /\ input_connect.key_sort = "Oklad"

\* C22: a sort on 'Oklad' orders the records by the midpoint in roubles,
\* (integer part of from + integer part of to) / 2 * rate of the currency:
\* the midpoints never decrease along an ascending result and never increase
\* along a descending one.
C22_SortBySalaryMidpoint ==
    SortedBySalary
    => \A i \in 1..(Len(vacancies) - 1) :
            IF input_connect.sort_reverse
            THEN Mid2(vacancies[i]) >= Mid2(vacancies[i + 1])
            ELSE Mid2(vacancies[i]) <= Mid2(vacancies[i + 1])

\* an ascending result in which a record with the greater raw lower bound
\* stands before one in another currency
C22_Witness ==
    /\ SortedBySalary
    /\ ~input_connect.sort_reverse
    /\ \E i \in 1..(Len(vacancies) - 1) :
        /\ vacancies[i].salary.salary_from.whole > vacancies[i + 1].salary.salary_from.whole
        /\ vacancies[i].salary.salary_currency # vacancies[i + 1].salary.salary_currency
        /\ Mid2(vacancies[i]) < Mid2(vacancies[i + 1])

-----------------------------------------------------------------------------
(* Properties of the statistics flow: the share map *)

\* v / ShareScale is a multiple of 0.0001 nearest to count / total
IsShareOf(v, count, total) ==
    /\ 2 * (count * ShareScale - v * total) <= total
    /\ 2 * (v * total - count * ShareScale) <= total

\* C23: after the geography pass every area of areas_with_shares maps to
\* count(area) / total rounded to 4 decimals, a fraction in [0.01, 1] and not
\* a posting count, where total is the size of the whole input, postings
\* published outside 2007..2022 included.
C23_SharesAreFractions ==
    StatsDone =>
        \A i \in 1..Len(data_stats.areas_with_shares) :
            /\ IsShareOf(data_stats.areas_with_shares[i][2],
                         Cardinality(PostingsIn(data_stats.areas_with_shares[i][1])), Len(loaded))
            /\ data_stats.areas_with_shares[i][2] * 100 >= ShareScale
            /\ data_stats.areas_with_shares[i][2] <= ShareScale

\* a share that needs rounding, in an input with a posting of 2006
C23_Witness ==
    /\ StatsDone
    /\ \E i \in DOMAIN loaded : loaded[i].published_at[1] = "2006"
    /\ \E i \in 1..Len(data_stats.areas_with_shares) :
        /\ Cardinality(PostingsIn(data_stats.areas_with_shares[i][1])) > 1
        /\ (Cardinality(PostingsIn(data_stats.areas_with_shares[i][1])) * ShareScale)
                % Len(loaded) # 0

-----------------------------------------------------------------------------
(* Properties of the statistics flow: order of the maps *)

YearMaps == {"salary_years", "count_years", "salary_prof", "count_prof"}
AreaMaps == {"areas_with_salrs", "areas_with_shares"}

\* the keys of dic are years of the range, in strictly ascending order
AscendingYears(dic) ==
    /\ \A i \in 1..Len(dic) : dic[i][1] \in FirstYear..LastYear
    /\ \A i \in 1..(Len(dic) - 1) : dic[i][1] < dic[i + 1][1]

\* the values of dic never increase along the dict
DescendingValues(dic) == \A i \in 1..(Len(dic) - 1) : dic[i][2] >= dic[i + 1][2]

\* C24: in every statistics result the keys of each of the four year maps are
\* in strictly ascending order and within 2007..2022, and the values of each
\* of the two area maps are in non-increasing order.
C24_MapsOrdered ==
    /\ StatsDone =>
        /\ \A m \in YearMaps : AscendingYears(data_stats[m])
        /\ \A m \in AreaMaps : DescendingValues(data_stats[m])
    /\ pc = "report" =>
        /\ \A m \in YearMaps : AscendingYears(report_data[m])
        /\ \A m \in AreaMaps : DescendingValues(report_data[m])

\* the result of a file whose first posting is of a later year than its second
\* and whose areas come in another order than their values
C24_Witness ==
    /\ pc = "report"
    /\ Len(loaded) >= 2
    /\ loaded[1].published_at[1] = "2022"
    /\ loaded[2].published_at[1] = "2020"
    /\ Len(report_data.salary_years) = 2
    /\ Len(report_data.areas_with_salrs) = 2
    /\ report_data.areas_with_shares[1][1] # loaded[1].area_name
    /\ report_data.areas_with_shares[1][2] > report_data.areas_with_shares[2][2]
    /\ report_data.areas_with_salrs[1][2] > report_data.areas_with_salrs[2][2]

-----------------------------------------------------------------------------
(* Properties of the statistics flow: the year keys *)

YearKeys(dic) == Range(Keys(dic))

\* C25: after an aggregation run on a fresh DataStats the four year maps have
\* the same set of year keys: a year has a profession entry iff it has an
\* entry for the whole population.
C25_SameYearKeys ==
    StatsRan =>
        /\ YearKeys(data_stats.count_years) = YearKeys(data_stats.salary_years)
        /\ YearKeys(data_stats.salary_prof) = YearKeys(data_stats.salary_years)
        /\ YearKeys(data_stats.count_prof) = YearKeys(data_stats.salary_years)

\* two recorded years, the profession found in one of them only
C25_Witness ==
    /\ StatsDone
    /\ Len(data_stats.salary_years) = 2
    /\ Len(data_stats.count_prof) = 2
    /\ data_stats.count_prof[1][2] > 0
    /\ data_stats.count_prof[2][2] = 0
    /\ data_stats.salary_prof[2][2] = 0

-----------------------------------------------------------------------------
(* Properties of the report renderers *)

PieDrawn == pc = "piechart"

\* C26: the shares of areas_with_shares never sum to more than 1, so the
\* 'Drugie' slice 1 - sum(shares) of the pie chart is never negative.
C26_OtherSliceNonNegative ==
    /\ StatsDone => SumSeq(Values(data_stats.areas_with_shares)) <= ShareScale
    /\ PieDrawn => pure_out.pie.percents[1] >= 0

\* C27: in the pie chart every share is labelled with the area it belongs to:
\* the i-th area label names the area of the i-th entry of areas_with_shares.
C27_PieLabelsMatchShares ==
    PieDrawn =>
        /\ Len(pure_out.pie.areas) = Len(pure_out.pie.percents)
        /\ \A i \in 1..Len(report_data.areas_with_shares) :
            /\ pure_out.pie.percents[i + 1] = report_data.areas_with_shares[i][2]
            /\ pure_out.pie.areas[i + 1] = report_data.areas_with_shares[i][1]

\* every year from the first to the last key of salary_years is a key of dic
CoversYears(data, dic) ==
    \A y \in data.salary_years[1][1]..data.salary_years[Len(data.salary_years)][1] :
        HasKey(dic, y)

\* C28: building the year table from the result of a run over a non-empty
\* input never hits a missing year: all four year maps have an entry for every
\* year between the first and the last recorded year, and fill_data_years
\* does not raise.
C28_YearTableComplete ==
    /\ (pc = "report" /\ Len(loaded) > 0) =>
        /\ Len(report_data.salary_years) > 0
        /\ \A m \in YearMaps : CoversYears(report_data, report_data[m])
    /\ (pc = "render_raised" /\ Len(loaded) > 0) => err \notin {"IndexError", "KeyError"}

\* the areas holding at least 1% of the postings
QualifyingAreas ==
    {a \in AreasOf(loaded) : Cardinality(PostingsIn(a)) * 100 >= Len(loaded)}

\* fill_data_cities was reached and raised
CityTableRaised == pc = "render_raised" /\ pure_out # <<>>

\* C29: after an aggregation run areas_with_salrs and areas_with_shares have
\* the same number of entries, min(10, number of areas at or above 1%), so
\* fill_data_cities, which pairs their i-th entries, never runs out of rows.
C29_AreaMapsSameLength ==
    /\ StatsDone =>
        /\ Len(data_stats.areas_with_salrs) = Min(TopN, Cardinality(QualifyingAreas))
        /\ Len(data_stats.areas_with_shares) = Min(TopN, Cardinality(QualifyingAreas))
    /\ ~CityTableRaised
    /\ pc \in {"cities_filled", "piechart"} =>
        /\ Len(pure_out.sheet_cities) = Len(report_data.areas_with_shares)
        /\ \A i \in 1..Len(pure_out.sheet_cities) :
            /\ Len(pure_out.sheet_cities[i]) = 5
            /\ pure_out.sheet_cities[i][1] = report_data.areas_with_salrs[i][1]
            /\ pure_out.sheet_cities[i][4] = report_data.areas_with_shares[i][1]

\* more than ten qualifying areas: the city table has ten full rows
C29_Witness ==
    /\ pc = "cities_filled"
    /\ Cardinality(QualifyingAreas) > TopN
    /\ Len(pure_out.sheet_cities) = TopN
    /\ Len(report_data.areas_with_salrs) = TopN

\* the postings published in a year of range(2007, 2023)
InYearRange == UNION {PostingsOf(y) : y \in FirstYear..LastYear}

\* the sum of count_years over its years
CountedPostings == SumSeq(Values(data_stats.count_years))

\* C30: in a statistics result count_years[y] is the number of input postings
\* published in y and 0 <= count_prof[y] <= count_years[y] for every recorded
\* year; the counts sum to at most the input size, and to exactly the input
\* size iff every posting was published in 2007..2022.
C30_CountsConsistent ==
    StatsDone =>
        /\ \A y \in YearKeys(data_stats.count_years) :
            /\ Get(data_stats.count_years, y) = Cardinality(PostingsOf(y))
            /\ HasKey(data_stats.count_prof, y)
            /\ 0 <= Get(data_stats.count_prof, y)
            /\ Get(data_stats.count_prof, y) <= Get(data_stats.count_years, y)
        /\ CountedPostings <= Len(loaded)
        /\ CountedPostings = Len(loaded) <=> InYearRange = DOMAIN loaded

\* a posting of 2006 is left out of the counts, and one year has more
\* postings than postings of the profession
C30_Witness ==
    /\ StatsDone
    /\ InYearRange # DOMAIN loaded
    /\ 0 < CountedPostings
    /\ CountedPostings < Len(loaded)
    /\ \E y \in YearKeys(data_stats.count_years) :
        /\ 0 < Get(data_stats.count_prof, y)
        /\ Get(data_stats.count_prof, y) < Get(data_stats.count_years, y)

====
